---- MODULE Spec2Model ----
(***************************************************************************)
(* readme-forge.  One specification for each part of the program:         *)
(*   Spec          templates.py: render_template, get_section_names and    *)
(*                 the catalog they read                                   *)
(*   BadgeSpec     badges.py: generate_badge, generate_badges_from_preset  *)
(*   LicenseSpec   licenses.py: save_license_file, get_license_info,       *)
(*                 get_license_badge_name                                  *)
(*   ProjectSpec   git_utils.py: detect_project_type                       *)
(*   GenerateSpec  main.py: the command `generate` from the rendering on   *)
(* Each specification leaves the variables of the other parts idle.        *)
(*                                                                         *)
(* Text.  A Python str is a sequence of atoms; an atom is a non-empty      *)
(* piece of text, the string denoted is the concatenation of the atoms.    *)
(* Titles, anchors, table-of-contents entries and the string values of a   *)
(* context are written one character per atom; the literal text of a       *)
(* section's content is written in larger atoms (a line or a part of a     *)
(* line), with every whitespace character an atom of its own.              *)
(***************************************************************************)
EXTENDS Integers, Sequences, FiniteSets, TLC

\* ---------------------------------------------------------------- text --

NL == "\n"

\* the whitespace atoms (str.strip() removes exactly runs of these)
WS == {" ", NL, "\t"}

Digit == <<"0","1","2","3","4","5","6","7","8","9">>

\* the lower-case letter of each capital
LowerOf ==
    "A" :> "a" @@ "B" :> "b" @@ "C" :> "c" @@ "D" :> "d" @@ "E" :> "e" @@ "F" :> "f"
    @@ "G" :> "g" @@ "H" :> "h" @@ "I" :> "i" @@ "J" :> "j" @@ "K" :> "k" @@ "L" :> "l"
    @@ "M" :> "m" @@ "N" :> "n" @@ "O" :> "o" @@ "P" :> "p" @@ "Q" :> "q" @@ "R" :> "r"
    @@ "S" :> "s" @@ "T" :> "t" @@ "U" :> "u" @@ "V" :> "v" @@ "W" :> "w" @@ "X" :> "x"
    @@ "Y" :> "y" @@ "Z" :> "z"

\* str.lower() on one character
LowerChar(c) == IF c \in DOMAIN LowerOf THEN LowerOf[c] ELSE c

\* str.lower()
StrLower(s) == [j \in 1..Len(s) |-> LowerChar(s[j])]

\* str.replace(old, new) for a one-character old
StrReplace(s, old, new) == [j \in 1..Len(s) |-> IF s[j] = old THEN new ELSE s[j]]

\* variant: bool(s), the text is tested without strip()
StripNonEmpty_nostrip(s) == s # <<>>

\* bool(s.strip()): some character of s is not whitespace
StripNonEmpty(s) == \E j \in 1..Len(s) : s[j] \notin WS

\* sep.join(parts)
RECURSIVE StrJoin(_, _)
StrJoin(sep, parts) ==
    IF parts = <<>> THEN <<>>
    ELSE IF Len(parts) = 1 THEN parts[1]
    ELSE parts[1] \o sep \o StrJoin(sep, Tail(parts))

\* str(n) for a non-negative int
RECURSIVE IntStr(_)
IntStr(n) == IF n < 10 THEN <<Digit[n + 1]>>
             ELSE IntStr(n \div 10) \o <<Digit[(n % 10) + 1]>>

\* -------------------------------------------------------------- values --
\* A context value.  t is the Python type: "str" (s), "int" (n), "list"
\* (l, a sequence of values), "map" (a, a sequence of [k, v] pairs with
\* string values v), or "undef" for jinja2's Undefined.

Undef    == [t |-> "undef", s |-> <<>>, n |-> 0, l |-> <<>>, a |-> <<>>]
VStr(x)  == [t |-> "str",   s |-> x,    n |-> 0, l |-> <<>>, a |-> <<>>]
VInt(x)  == [t |-> "int",   s |-> <<>>, n |-> x, l |-> <<>>, a |-> <<>>]
VList(x) == [t |-> "list",  s |-> <<>>, n |-> 0, l |-> x,    a |-> <<>>]
VMap(x)  == [t |-> "map",   s |-> <<>>, n |-> 0, l |-> <<>>, a |-> x]

\* repr() of a str without quotes or backslashes inside
Repr(x) == <<"'">> \o x \o <<"'">>

RECURSIVE ReprPairs(_)
ReprPairs(ps) ==
    IF ps = <<>> THEN <<>>
    ELSE Repr(ps[1].k) \o <<":", " ">> \o Repr(ps[1].v)
         \o (IF Len(ps) > 1 THEN <<",", " ">> ELSE <<>>) \o ReprPairs(Tail(ps))

\* repr() of a list item (a str or a dict of str)
ReprItem(v) ==
    CASE v.t = "str" -> Repr(v.s)
      [] v.t = "int" -> IntStr(v.n)
      [] v.t = "map" -> <<"{">> \o ReprPairs(v.a) \o <<"}">>
      [] OTHER       -> <<>>

RECURSIVE ReprItems(_)
ReprItems(l) ==
    IF l = <<>> THEN <<>>
    ELSE ReprItem(l[1]) \o (IF Len(l) > 1 THEN <<",", " ">> ELSE <<>>)
         \o ReprItems(Tail(l))

\* str(value), what {{ value }} emits
ToStr(v) ==
    CASE v.t = "undef" -> <<>>
      [] v.t = "str"   -> v.s
      [] v.t = "int"   -> IntStr(v.n)
      [] v.t = "list"  -> <<"[">> \o ReprItems(v.l) \o <<"]">>
      [] v.t = "map"   -> <<"{">> \o ReprPairs(v.a) \o <<"}">>

\* bool(value), what {% if value %} tests
Truthy(v) ==
    CASE v.t = "undef" -> FALSE
      [] v.t = "str"   -> v.s # <<>>
      [] v.t = "int"   -> v.n # 0
      [] v.t = "list"  -> v.l # <<>>
      [] v.t = "map"   -> v.a # <<>>

\* iter(value) for {% for %}: [ok, items]; an int is not iterable
Iterate(v) ==
    CASE v.t = "undef" -> [ok |-> TRUE,  items |-> <<>>]
      [] v.t = "str"   -> [ok |-> TRUE,  items |-> [j \in 1..Len(v.s) |-> VStr(<<v.s[j]>>)]]
      [] v.t = "int"   -> [ok |-> FALSE, items |-> <<>>]
      [] v.t = "list"  -> [ok |-> TRUE,  items |-> v.l]
      [] v.t = "map"   -> [ok |-> TRUE,  items |-> [j \in 1..Len(v.a) |-> VStr(v.a[j].k)]]

\* context lookup: a missing key is Undefined
Resolve(ctx, key) == IF key \in DOMAIN ctx THEN ctx[key] ELSE Undef

\* the context with key bound to value
CtxSet(ctx, key, value) ==
    [k \in (DOMAIN ctx) \cup {key} |-> IF k = key THEN value ELSE ctx[k]]

\* ------------------------------------------------- jinja2 rendering --
\* The parsed form of a section's content (Environment().from_string):
\* a sequence of nodes.  Environment() is the default one: no autoescape,
\* trim_blocks and lstrip_blocks off, keep_trailing_newline off, Undefined
\* as the undefined type.
\*   lit  : literal text
\*   out  : {{ key }}, {{ key.attr }}, with an optional |default(dflt)
\*   if   : {% if c %} a {% else %} b {% endif %}, c a condition below
\*   for  : {% for var in key %} a {% endfor %}
\*   bad  : text jinja2 cannot parse (TemplateSyntaxError in from_string)

Node(k, text, key, attr, hasd, dflt, cond, a, b, var) ==
    [k |-> k, text |-> text, key |-> key, attr |-> attr, hasd |-> hasd,
     dflt |-> dflt, cond |-> cond, a |-> a, b |-> b, var |-> var]

\* a condition: key[.attr] is truthy, and (when hasne) differs from the
\* string literal ne
Cond(key, attr, hasne, ne) == [key |-> key, attr |-> attr, hasne |-> hasne, ne |-> ne]

NoCond == Cond("", "", FALSE, <<>>)

Lit(text)             == Node("lit", text, "", "", FALSE, <<>>, NoCond, <<>>, <<>>, "")
Out(key)              == Node("out", <<>>, key, "", FALSE, <<>>, NoCond, <<>>, <<>>, "")
OutD(key, dflt)       == Node("out", <<>>, key, "", TRUE, dflt, NoCond, <<>>, <<>>, "")
OutA(key, attr)       == Node("out", <<>>, key, attr, FALSE, <<>>, NoCond, <<>>, <<>>, "")
OutAD(key, attr, dflt) == Node("out", <<>>, key, attr, TRUE, dflt, NoCond, <<>>, <<>>, "")
If(key, a, b)         == Node("if", <<>>, "", "", FALSE, <<>>, Cond(key, "", FALSE, <<>>), a, b, "")
IfA(key, attr, a, b)  == Node("if", <<>>, "", "", FALSE, <<>>, Cond(key, attr, FALSE, <<>>), a, b, "")
IfNe(key, ne, a, b)   == Node("if", <<>>, "", "", FALSE, <<>>, Cond(key, "", TRUE, ne), a, b, "")
For(var, key, a)      == Node("for", <<>>, key, "", FALSE, <<>>, NoCond, a, <<>>, var)
Bad                   == Node("bad", <<>>, "", "", FALSE, <<>>, NoCond, <<>>, <<>>, "")

\* the attributes the catalog reads that are also methods of str
StrMethods == {"title"}

\* dict lookup in a sequence of [k, v] pairs
RECURSIVE MapGet(_, _)
MapGet(ps, attr) ==
    IF ps = <<>> THEN Undef
    ELSE IF ps[1].k = attr THEN VStr(ps[1].v)
    ELSE MapGet(Tail(ps), attr)

\* Environment.getattr(obj, attr): [ok, v].  An attribute of Undefined
\* raises UndefinedError; a missing attribute is Undefined.
GetAttr(v, attr) ==
    CASE v.t = "undef" -> [ok |-> FALSE, v |-> Undef]
      [] v.t = "map"   -> [ok |-> TRUE,  v |-> MapGet(v.a, <<attr>>)]
      [] v.t = "str"   -> [ok |-> TRUE,
                           v |-> IF attr \in StrMethods
                                 THEN VStr(<<"<built-in method ", attr, " of str object>">>)
                                 ELSE Undef]
      [] OTHER         -> [ok |-> TRUE,  v |-> Undef]

\* variant: StrictUndefined, reading a missing key raises
Eval_strict(ctx, key, attr) ==
    IF key \notin DOMAIN ctx THEN [ok |-> FALSE, v |-> Undef]
    ELSE IF attr = "" THEN [ok |-> TRUE, v |-> Resolve(ctx, key)]
    ELSE GetAttr(Resolve(ctx, key), attr)

\* the value of key or key.attr in ctx: [ok, v]
Eval(ctx, key, attr) ==
    IF attr = "" THEN [ok |-> TRUE, v |-> Resolve(ctx, key)]
    ELSE GetAttr(Resolve(ctx, key), attr)

\* variant: the comparison with the string literal is left out
EvalCond_truthy(ctx, c) ==
    LET e == Eval(ctx, c.key, c.attr)
    IN  [ok |-> e.ok, b |-> e.ok /\ Truthy(e.v)]

\* [ok, b]: the truth of a condition
EvalCond(ctx, c) ==
    LET e == Eval(ctx, c.key, c.attr)
    IN  [ok |-> e.ok,
         b  |-> e.ok /\ Truthy(e.v)
                /\ (c.hasne => ~(e.v.t = "str" /\ e.v.s = c.ne))]

\* [ok, out]: what an out node emits
EvalOut(ctx, nd) ==
    LET e == Eval(ctx, nd.key, nd.attr)
    IN  IF ~e.ok THEN [ok |-> FALSE, out |-> <<>>]
        ELSE IF nd.hasd /\ e.v.t = "undef" THEN [ok |-> TRUE, out |-> nd.dflt]
        ELSE [ok |-> TRUE, out |-> ToStr(e.v)]

\* Template.render: [ok, out]; ok is FALSE when rendering raises
RECURSIVE RenderNodes(_, _)
RECURSIVE RenderFor(_, _, _, _)
RenderNodes(nodes, ctx) ==
    IF nodes = <<>> THEN [ok |-> TRUE, out |-> <<>>]
    ELSE
      LET nd == nodes[1]
          first ==
            CASE nd.k = "lit" -> [ok |-> TRUE, out |-> nd.text]
              [] nd.k = "out" -> EvalOut(ctx, nd)
              [] nd.k = "if"  ->
                    LET c == EvalCond(ctx, nd.cond)
                    IN  IF ~c.ok THEN [ok |-> FALSE, out |-> <<>>]
                        ELSE IF c.b THEN RenderNodes(nd.a, ctx)
                        ELSE RenderNodes(nd.b, ctx)
              [] nd.k = "for" ->
                    LET it == Iterate(Resolve(ctx, nd.key))
                    IN  IF ~it.ok THEN [ok |-> FALSE, out |-> <<>>]
                        ELSE RenderFor(nd.a, nd.var, it.items, ctx)
              [] OTHER        -> [ok |-> FALSE, out |-> <<>>]
      IN  IF ~first.ok THEN [ok |-> FALSE, out |-> <<>>]
          ELSE LET rest == RenderNodes(Tail(nodes), ctx)
               IN  IF ~rest.ok THEN [ok |-> FALSE, out |-> <<>>]
                   ELSE [ok |-> TRUE, out |-> first.out \o rest.out]

RenderFor(body, var, items, ctx) ==
    IF items = <<>> THEN [ok |-> TRUE, out |-> <<>>]
    ELSE LET one == RenderNodes(body, CtxSet(ctx, var, items[1]))
         IN  IF ~one.ok THEN [ok |-> FALSE, out |-> <<>>]
             ELSE LET rest == RenderFor(body, var, Tail(items), ctx)
                  IN  IF ~rest.ok THEN [ok |-> FALSE, out |-> <<>>]
                      ELSE [ok |-> TRUE, out |-> one.out \o rest.out]

\* some node anywhere in the content is unparsable
RECURSIVE HasBad(_)
HasBad(nodes) ==
    \E j \in 1..Len(nodes) :
        nodes[j].k = "bad" \/ HasBad(nodes[j].a) \/ HasBad(nodes[j].b)

\* keep_trailing_newline=False: one newline at the very end of the source
\* is dropped
DropTrailingNewline(nodes) ==
    IF nodes # <<>> /\ nodes[Len(nodes)].k = "lit"
       /\ nodes[Len(nodes)].text # <<>>
       /\ nodes[Len(nodes)].text[Len(nodes[Len(nodes)].text)] = NL
    THEN [nodes EXCEPT ![Len(nodes)] =
            Lit(SubSeq(nodes[Len(nodes)].text, 1, Len(nodes[Len(nodes)].text) - 1))]
    ELSE nodes

\* env.from_string(content).render(context): [ok, out].  The context is
\* copied by render (dict(context)), so rendering never writes to it.
RenderSection(content, context) ==
    IF HasBad(content) THEN [ok |-> FALSE, out |-> <<>>]
    ELSE RenderNodes(DropTrailingNewline(content), context)

\* ------------------------------------------------------- the catalog --
\* Section contents are the parsed form of the content strings of
\* DEFAULT_SECTIONS; titles are written one character per atom.  A TLA+
\* string cannot hold a backquote: the backquote of the source is written ^
\* (a character the source does not use).  Template.sections is a list of
\* references to TemplateSection objects: the model writes a reference as
\* the id of the object (its key in DEFAULT_SECTIONS) and reads the object
\* through SectionAt, from the variable `objects`.

\* variant: the header shows the table of contents under the description
Content_header_toc ==
    <<
       Lit(<<"#", " ">>),
       Out("project_name"),
       Lit(<<NL, NL>>),
       If("badges", <<Lit(<<NL>>), Out("badges"), Lit(<<NL>>)>>, <<>>),
       Lit(<<NL, NL>>),
       Out("project_description"),
       Lit(<<NL, NL>>),
       Out("table_of_contents"),
       Lit(<<NL>>)
    >>

\* DEFAULT_SECTIONS["header"].content
Content_header ==
    <<
       Lit(<<"#", " ">>),
       Out("project_name"),
       Lit(<<NL, NL>>),
       If("badges", <<Lit(<<NL>>), Out("badges"), Lit(<<NL>>)>>, <<>>),
       Lit(<<NL, NL>>),
       Out("project_description"),
       Lit(<<NL>>)
    >>

\* DEFAULT_SECTIONS["features"].content
Content_features ==
    <<
       Lit(<<"## Features", NL, NL>>),
       If("features", <<Lit(<<NL>>), For("feature", "features", <<Lit(<<NL, "-", " ">>), Out("feature"), Lit(<<NL>>)>>), Lit(<<NL>>)>>, <<Lit(<<NL, "- Feature 1", NL, "- Feature 2", NL, "- Feature 3", NL>>)>>),
       Lit(<<NL>>)
    >>

\* variant: the heading of the section is inside its first guard
Content_demo_gated ==
    <<
       If("demo_gif", <<Lit(<<"## Demo", NL, NL>>), Lit(<<NL, "![Demo](">>), Out("demo_gif"), Lit(<<")", NL>>)>>, <<>>),
       Lit(<<NL, NL>>),
       If("demo_url", <<Lit(<<NL, "[Live Demo](">>), Out("demo_url"), Lit(<<")", NL>>)>>, <<>>),
       Lit(<<NL>>)
    >>

\* DEFAULT_SECTIONS["demo"].content
Content_demo ==
    <<
       Lit(<<"## Demo", NL, NL>>),
       If("demo_gif", <<Lit(<<NL, "![Demo](">>), Out("demo_gif"), Lit(<<")", NL>>)>>, <<>>),
       Lit(<<NL, NL>>),
       If("demo_url", <<Lit(<<NL, "[Live Demo](">>), Out("demo_url"), Lit(<<")", NL>>)>>, <<>>),
       Lit(<<NL>>)
    >>

\* DEFAULT_SECTIONS["prerequisites"].content
Content_prerequisites ==
    <<
       Lit(<<"## Prerequisites", NL, NL>>),
       If("prerequisites", <<Lit(<<NL>>), For("prereq", "prerequisites", <<Lit(<<NL, "-", " ">>), Out("prereq"), Lit(<<NL>>)>>), Lit(<<NL>>)>>, <<Lit(<<NL, "Before you begin, ensure you have the following installed:", NL, "- Python 3.8 or higher", NL>>)>>),
       Lit(<<NL>>)
    >>

\* DEFAULT_SECTIONS["installation"].content
Content_installation ==
    <<
       Lit(<<"## Installation", NL, NL>>),
       If("installation_instructions", <<Lit(<<NL, "^^^bash", NL>>), Out("installation_instructions"), Lit(<<NL, "^^^", NL>>)>>, <<Lit(<<NL, "^^^bash", NL, "pip install", " ">>), Out("project_name"), Lit(<<NL, "^^^", NL>>)>>),
       Lit(<<NL>>)
    >>

\* DEFAULT_SECTIONS["usage"].content
Content_usage ==
    <<
       Lit(<<"## Usage", NL, NL>>),
       If("usage_instructions", <<Lit(<<NL, "^^^">>), OutD("code_language", <<"b","a","s","h">>), Lit(<<NL>>), Out("usage_instructions"), Lit(<<NL, "^^^", NL>>)>>, <<Lit(<<NL, "^^^bash", NL>>), Out("project_name"), Lit(<<" ", "--help", NL, "^^^", NL>>)>>),
       Lit(<<NL, NL>>),
       If("usage_examples", <<Lit(<<NL, "### Examples", NL, NL>>), For("example", "usage_examples", <<Lit(<<NL, "####", " ">>), OutA("example", "title"), Lit(<<NL, NL, "^^^">>), OutAD("example", "language", <<"b","a","s","h">>), Lit(<<NL>>), OutA("example", "code"), Lit(<<NL, "^^^", NL, NL>>)>>), Lit(<<NL>>)>>, <<>>),
       Lit(<<NL>>)
    >>

\* DEFAULT_SECTIONS["api_reference"].content
Content_api_reference ==
    <<
       Lit(<<"## API Reference", NL, NL>>),
       If("api_docs_url", <<Lit(<<NL, "For detailed API documentation, visit [API Docs](">>), Out("api_docs_url"), Lit(<<").", NL>>)>>, <<Lit(<<NL, "### Core Functions", NL, NL, "| Function | Description |", NL, "|----------|-------------|", NL, "| ^function_name()^ | Description of function |", NL, NL>>)>>),
       Lit(<<NL>>)
    >>

\* DEFAULT_SECTIONS["configuration"].content
Content_configuration ==
    <<
       Lit(<<"## Configuration", NL, NL>>),
       If("config_file", <<Lit(<<NL, "Create a ^">>), Out("config_file"), Lit(<<"^ file in your project root:", NL, NL, "^^^">>), OutD("config_format", <<"j","s","o","n">>), Lit(<<NL>>), OutD("config_example", <<"{","}">>), Lit(<<NL, "^^^", NL>>)>>, <<>>),
       Lit(<<NL, NL>>),
       If("env_vars", <<Lit(<<NL, "### Environment Variables", NL, NL, "| Variable | Description | Default |", NL, "|----------|-------------|---------|", NL>>), For("var", "env_vars", <<Lit(<<NL, "| ^">>), OutA("var", "name"), Lit(<<"^ |", " ">>), OutA("var", "description"), Lit(<<" ", "|", " ">>), OutAD("var", "default", <<"N","o","n","e">>), Lit(<<" ", "|", NL>>)>>), Lit(<<NL>>)>>, <<>>),
       Lit(<<NL>>)
    >>

\* DEFAULT_SECTIONS["roadmap"].content
Content_roadmap ==
    <<
       Lit(<<"## Roadmap", NL, NL>>),
       If("roadmap_items", <<Lit(<<NL>>), For("item", "roadmap_items", <<Lit(<<NL, "- [">>), IfA("item", "done", <<Lit(<<"x">>)>>, <<Lit(<<" ">>)>>), Lit(<<"]", " ">>), OutA("item", "title"), Lit(<<NL>>)>>), Lit(<<NL>>)>>, <<Lit(<<NL, "- [x] Initial release", NL, "- [ ] Add more features", NL, "- [ ] Write comprehensive documentation", NL>>)>>),
       Lit(<<NL, NL, "See the [open issues](https://github.com/">>),
       Out("github_username"),
       Lit(<<"/">>),
       Out("project_name"),
       Lit(<<"/issues) for a full list of proposed features and known issues.", NL>>)
    >>

\* DEFAULT_SECTIONS["contributing"].content
Content_contributing ==
    <<
       Lit(<<"## Contributing", NL, NL, "Contributions are welcome! Here's how you can help:", NL, NL, "1. Fork the repository", NL, "2. Create a feature branch (^git checkout -b feature/amazing-feature^)", NL, "3. Commit your changes (^git commit -m 'Add amazing feature'^)", NL, "4. Push to the branch (^git push origin feature/amazing-feature^)", NL, "5. Open a Pull Request", NL, NL>>),
       If("contributing_file", <<Lit(<<NL, "Please read [CONTRIBUTING.md](">>), Out("contributing_file"), Lit(<<") for details on our code of conduct and the process for submitting pull requests.", NL>>)>>, <<>>),
       Lit(<<NL>>)
    >>

\* DEFAULT_SECTIONS["testing"].content
Content_testing ==
    <<
       Lit(<<"## Testing", NL, NL>>),
       If("test_command", <<Lit(<<NL, "^^^bash", NL>>), Out("test_command"), Lit(<<NL, "^^^", NL>>)>>, <<Lit(<<NL, "^^^bash", NL, "pytest", NL, "^^^", NL>>)>>),
       Lit(<<NL, NL>>),
       If("coverage_command", <<Lit(<<NL, "### Coverage", NL, NL, "^^^bash", NL>>), Out("coverage_command"), Lit(<<NL, "^^^", NL>>)>>, <<>>),
       Lit(<<NL>>)
    >>

\* DEFAULT_SECTIONS["license"].content
Content_license ==
    <<
       Lit(<<"## License", NL, NL>>),
       IfNe("license", <<"N","o","n","e">>, <<Lit(<<NL, "This project is licensed under the", " ">>), Out("license"), Lit(<<" ", "License - see the [LICENSE](LICENSE) file for details.", NL>>)>>, <<Lit(<<NL, "This project is provided as-is without any license.", NL>>)>>),
       Lit(<<NL>>)
    >>

\* DEFAULT_SECTIONS["contact"].content
Content_contact ==
    <<
       Lit(<<"## Contact", NL, NL>>),
       If("author_name", <<Out("author_name")>>, <<Lit(<<"Your Name">>)>>),
       If("author_email", <<Lit(<<" ", "-", " ">>), Out("author_email")>>, <<>>),
       Lit(<<NL, NL>>),
       If("twitter_handle", <<Lit(<<NL, "Twitter: [@">>), Out("twitter_handle"), Lit(<<"](https://twitter.com/">>), Out("twitter_handle"), Lit(<<")", NL>>)>>, <<>>),
       Lit(<<NL, NL, "Project Link: [https://github.com/">>),
       Out("github_username"),
       Lit(<<"/">>),
       Out("project_name"),
       Lit(<<"](https://github.com/">>),
       Out("github_username"),
       Lit(<<"/">>),
       Out("project_name"),
       Lit(<<")", NL>>)
    >>

\* DEFAULT_SECTIONS["acknowledgments"].content
Content_acknowledgments ==
    <<
       Lit(<<"## Acknowledgments", NL, NL>>),
       If("acknowledgments", <<Lit(<<NL>>), For("ack", "acknowledgments", <<Lit(<<NL, "-", " ">>), Out("ack"), Lit(<<NL>>)>>), Lit(<<NL>>)>>, <<Lit(<<NL, "- Thanks to all contributors", NL>>)>>),
       Lit(<<NL>>)
    >>

\* DEFAULT_SECTIONS["toc"].content
Content_toc ==
    <<
       Lit(<<"## Table of Contents", NL, NL>>),
       Out("table_of_contents"),
       Lit(<<NL>>)
    >>

Section(name, title, content, optional, order) ==
    [name |-> name, title |-> title, content |-> content,
     optional |-> optional, order |-> order]

\* the shared section definitions
DEFAULT_SECTIONS ==
    [header |->
        Section("header", <<>>,
                Content_header, FALSE, 0),
     features |->
        Section("features", <<"F","e","a","t","u","r","e","s">>,
                Content_features, TRUE, 10),
     demo |->
        Section("demo", <<"D","e","m","o">>,
                Content_demo, TRUE, 15),
     prerequisites |->
        Section("prerequisites", <<"P","r","e","r","e","q","u","i","s","i","t","e","s">>,
                Content_prerequisites, TRUE, 20),
     installation |->
        Section("installation", <<"I","n","s","t","a","l","l","a","t","i","o","n">>,
                Content_installation, FALSE, 30),
     usage |->
        Section("usage", <<"U","s","a","g","e">>,
                Content_usage, FALSE, 40),
     api_reference |->
        Section("api_reference", <<"A","P","I"," ","R","e","f","e","r","e","n","c","e">>,
                Content_api_reference, TRUE, 50),
     configuration |->
        Section("configuration", <<"C","o","n","f","i","g","u","r","a","t","i","o","n">>,
                Content_configuration, TRUE, 55),
     roadmap |->
        Section("roadmap", <<"R","o","a","d","m","a","p">>,
                Content_roadmap, TRUE, 60),
     contributing |->
        Section("contributing", <<"C","o","n","t","r","i","b","u","t","i","n","g">>,
                Content_contributing, TRUE, 70),
     testing |->
        Section("testing", <<"T","e","s","t","i","n","g">>,
                Content_testing, TRUE, 65),
     license |->
        Section("license", <<"L","i","c","e","n","s","e">>,
                Content_license, FALSE, 80),
     contact |->
        Section("contact", <<"C","o","n","t","a","c","t">>,
                Content_contact, TRUE, 90),
     acknowledgments |->
        Section("acknowledgments", <<"A","c","k","n","o","w","l","e","d","g","m","e","n","t","s">>,
                Content_acknowledgments, TRUE, 100),
     toc |->
        Section("toc", <<"T","a","b","l","e"," ","o","f"," ","C","o","n","t","e","n","t","s">>,
                Content_toc, TRUE, 5)]

Template(name, sections) == [name |-> name, sections |-> sections]

\* the catalog as written in the source
CATALOG ==
    [python_library |->
        Template("python_library",
            <<
              "header", "toc", "features", "prerequisites",
              "installation", "usage", "api_reference",
              "configuration", "testing", "roadmap",
              "contributing", "license", "contact",
              "acknowledgments"
            >>),
     cli_tool |->
        Template("cli_tool",
            <<
              "header", "toc", "features", "demo",
              "prerequisites", "installation", "usage",
              "configuration", "roadmap", "contributing",
              "license", "contact"
            >>),
     web_app |->
        Template("web_app",
            <<
              "header", "toc", "features", "demo",
              "prerequisites", "installation", "usage",
              "configuration", "api_reference", "testing",
              "roadmap", "contributing", "license",
              "contact", "acknowledgments"
            >>),
     api |->
        Template("api",
            <<
              "header", "toc", "features", "prerequisites",
              "installation", "usage", "api_reference",
              "configuration", "testing", "roadmap",
              "contributing", "license", "contact"
            >>),
     minimal |->
        Template("minimal",
            <<
              "header", "installation", "usage", "license"
            >>),
     standard |->
        Template("standard",
            <<
              "header", "toc", "features", "prerequisites",
              "installation", "usage", "roadmap",
              "contributing", "license", "contact",
              "acknowledgments"
            >>)]

\* ------------------------------------------- templates outside the catalog --
\* TEMPLATES is a module-level dict and TemplateSection an open dataclass:
\* besides the six templates of the source the model lets the catalog hold
\* one more entry, "custom", built from the sections below, so that equal
\* and unordered `order` values, sections that raise, blank sections and
\* the empty template occur.

\* content: " {{ table_of_contents }}\n\n", sorted ahead of "toc"
X_intro ==
    Section("intro", <<"Q","u","i","c","k"," ","S","t","a","r","t">>,
            <<Lit(<<" ">>), Out("table_of_contents"), Lit(<<NL, NL>>)>>, TRUE, 0)

\* a section named "header" that has a title; same order as "toc"
X_top ==
    Section("header", <<"T","o","p">>,
            <<Lit(<<"<h1>">>), Out("project_name"), Lit(<<"</h1>", NL>>)>>, FALSE, 5)

\* content jinja2 cannot parse: "## Broken {{ }"; same order as "toc"
X_broken ==
    Section("broken", <<"C","+","+"," ","&"," ","G","o">>,
            <<Lit(<<"## Broken", " ">>), Bad>>, TRUE, 5)

\* content: "{% if demo_url %}## FAQ {{ demo_url }}{% endif %}\n \n"
X_faq ==
    Section("faq", <<"F","A","Q">>,
            <<If("demo_url", <<Lit(<<"## FAQ", " ">>), Out("demo_url")>>, <<>>),
              Lit(<<NL, " ", NL>>)>>, FALSE, 3)

\* no title; content: "{% for f in features %}* {{ f }}\n{% endfor %}"
X_list ==
    Section("list", <<>>,
            <<For("f", "features", <<Lit(<<"*", " ">>), Out("f"), Lit(<<NL>>)>>)>>,
            TRUE, 7)

CustomSections ==
    [x_intro |-> X_intro, x_top |-> X_top, x_broken |-> X_broken,
     x_faq |-> X_faq, x_list |-> X_list]

\* the TemplateSection objects at module load, by reference
InitialObjects ==
    [id \in (DOMAIN DEFAULT_SECTIONS) \cup (DOMAIN CustomSections) |->
        IF id \in DOMAIN DEFAULT_SECTIONS THEN DEFAULT_SECTIONS[id]
        ELSE CustomSections[id]]

\* TemplateSection is a mutable dataclass: the objects are state
VARIABLE objects      \* reference -> TemplateSection object

\* A second object for each section, equal to it but for the opposite
\* `optional` flag; its reference is the section's with a ~ appended.
TwinPairs ==
    << <<"header", "header~">>, <<"features", "features~">>, <<"demo", "demo~">>,
       <<"prerequisites", "prerequisites~">>, <<"installation", "installation~">>,
       <<"usage", "usage~">>, <<"api_reference", "api_reference~">>,
       <<"configuration", "configuration~">>, <<"roadmap", "roadmap~">>,
       <<"contributing", "contributing~">>, <<"testing", "testing~">>,
       <<"license", "license~">>, <<"contact", "contact~">>,
       <<"acknowledgments", "acknowledgments~">>, <<"toc", "toc~">>,
       <<"x_intro", "x_intro~">>, <<"x_top", "x_top~">>, <<"x_broken", "x_broken~">>,
       <<"x_faq", "x_faq~">>, <<"x_list", "x_list~">>
    >>

\* reference -> reference of the twin
TwinTable == [id \in {TwinPairs[j][1] : j \in 1..Len(TwinPairs)} |->
                TwinPairs[CHOOSE j \in 1..Len(TwinPairs) : TwinPairs[j][1] = id][2]]

\* reference of a twin -> reference of the section
BaseTable == [id \in {TwinPairs[j][2] : j \in 1..Len(TwinPairs)} |->
                TwinPairs[CHOOSE j \in 1..Len(TwinPairs) : TwinPairs[j][2] = id][1]]

TwinOf(id) == TwinTable[id]
TwinBase(id) == BaseTable[id]

\* the TemplateSection object a reference denotes
SectionAt(id) ==
    IF id \in DOMAIN objects THEN objects[id]
    ELSE [objects[TwinBase(id)] EXCEPT !.optional = ~@]

SectionPool == <<"toc", "x_intro", "x_top", "x_broken", "x_faq", "x_list">>

\* the longest custom template
MaxSections == 3

\* the section lists of the custom template: up to MaxSections distinct
\* members of the pool, in any declaration order
CustomSectionLists ==
    UNION { { [j \in 1..n |-> SectionPool[p[j]]] :
              p \in { q \in [1..n -> 1..Len(SectionPool)] :
                        \A a, b \in 1..n : a # b => q[a] # q[b] } } :
            n \in 0..MaxSections }

\* ------------------------------------------------------------ contexts --

EmptyContext == [k \in {} |-> Undef]

\* dict(pairs) for a sequence of <<key, value>>
RECURSIVE MkContext(_)
MkContext(pairs) ==
    IF pairs = <<>> THEN EmptyContext
    ELSE CtxSet(MkContext(SubSeq(pairs, 1, Len(pairs) - 1)),
                pairs[Len(pairs)][1], pairs[Len(pairs)][2])

\* the example context of the documentation
Ctx_demo ==
    MkContext(<<
        <<"project_name", VStr(<<"d","e","m","o">>)>>,
        <<"installation_instructions", VStr(<<"p","i","p"," ","i","n","s","t","a","l","l"," ","d","e","m","o">>)>>,
        <<"usage_instructions", VStr(<<"d","e","m","o"," ","-","-","h","e","l","p">>)>>,
        <<"license", VStr(<<"M","I","T">>)>> >>)

\* a context as loaded from a configuration file: a caller-supplied
\* table_of_contents, license 'None', and a number where a list is expected
Ctx_config ==
    MkContext(<<
        <<"project_name", VStr(<<"d","e","m","o">>)>>,
        <<"license", VStr(<<"N","o","n","e">>)>>,
        <<"table_of_contents", VStr(<<"-"," ","[","O","l","d","]","(","#","o","l","d",")">>)>>,
        <<"demo_url", VStr(<<"x",".","i","o">>)>>,
        <<"features", VInt(5)>> >>)

\* a context with list values
Ctx_lists ==
    MkContext(<<
        <<"project_name", VStr(<<"d","e","m","o">>)>>,
        <<"features", VList(<<VStr(<<"f","a","s","t">>), VStr(<<"t","i","n","y">>)>>)>>,
        <<"usage_examples",
          VList(<<VMap(<< [k |-> <<"title">>, v |-> <<"R","u","n">>],
                          [k |-> <<"code">>,  v |-> <<"d","e","m","o"," ","r","u","n">>] >>)>>)>>,
        <<"roadmap_items", VInt(0)>>,
        <<"env_vars", VInt(3)>> >>)

Contexts == {EmptyContext, Ctx_demo, Ctx_config, Ctx_lists}

\* the template names a caller passes: the catalog's names, the custom
\* entry and a name that is not in the catalog
TemplateNames == (DOMAIN CATALOG) \cup {"custom", "fancy"}

\* The calls the model makes on a catalog T: any of the names above on the
\* catalog of the source (its custom entry is the empty template), and
\* calls of the custom entry on a catalog whose custom entry has sections.
Callable(T) == IF T["custom"].sections = <<>> THEN TemplateNames ELSE {"custom"}

\* ------------------------------------------------------------ badges.py --
\* A format string (the argument of str.format) is a sequence of parts: a
\* piece of literal text or a replacement field {name}.  No format string
\* of BADGE_TEMPLATES has a conversion, a format spec, an attribute or an
\* index in a field, or a doubled brace.

Txt(text) == [lit |-> TRUE,  s |-> text]
Fld(name) == [lit |-> FALSE, s |-> name]

\* an entry of BADGE_TEMPLATES: "name", "url" and, when haslink, "link"
BadgeTemplate(name, url, haslink, link) ==
    [name |-> name, url |-> url, haslink |-> haslink, link |-> link]

BADGE_TEMPLATES ==
    [
     license |->
        BadgeTemplate("License",
            <<Txt("https://img.shields.io/badge/license-"), Fld("license"), Txt("-blue.svg")>>,
            TRUE, <<Txt("#license")>>),
     license_github |->
        BadgeTemplate("License",
            <<Txt("https://img.shields.io/github/license/"), Fld("username"), Txt("/"), Fld("repo")>>,
            TRUE, <<Txt("https://github.com/"), Fld("username"), Txt("/"), Fld("repo"), Txt("/blob/main/LICENSE")>>),
     version |->
        BadgeTemplate("Version",
            <<Txt("https://img.shields.io/badge/version-"), Fld("version"), Txt("-green.svg")>>,
            FALSE, <<>>),
     pypi_version |->
        BadgeTemplate("PyPI Version",
            <<Txt("https://img.shields.io/pypi/v/"), Fld("package")>>,
            TRUE, <<Txt("https://pypi.org/project/"), Fld("package"), Txt("/")>>),
     npm_version |->
        BadgeTemplate("npm Version",
            <<Txt("https://img.shields.io/npm/v/"), Fld("package")>>,
            TRUE, <<Txt("https://www.npmjs.com/package/"), Fld("package")>>),
     github_stars |->
        BadgeTemplate("GitHub Stars",
            <<Txt("https://img.shields.io/github/stars/"), Fld("username"), Txt("/"), Fld("repo")>>,
            TRUE, <<Txt("https://github.com/"), Fld("username"), Txt("/"), Fld("repo"), Txt("/stargazers")>>),
     github_forks |->
        BadgeTemplate("GitHub Forks",
            <<Txt("https://img.shields.io/github/forks/"), Fld("username"), Txt("/"), Fld("repo")>>,
            TRUE, <<Txt("https://github.com/"), Fld("username"), Txt("/"), Fld("repo"), Txt("/network/members")>>),
     github_issues |->
        BadgeTemplate("GitHub Issues",
            <<Txt("https://img.shields.io/github/issues/"), Fld("username"), Txt("/"), Fld("repo")>>,
            TRUE, <<Txt("https://github.com/"), Fld("username"), Txt("/"), Fld("repo"), Txt("/issues")>>),
     github_prs |->
        BadgeTemplate("GitHub Pull Requests",
            <<Txt("https://img.shields.io/github/issues-pr/"), Fld("username"), Txt("/"), Fld("repo")>>,
            TRUE, <<Txt("https://github.com/"), Fld("username"), Txt("/"), Fld("repo"), Txt("/pulls")>>),
     github_last_commit |->
        BadgeTemplate("Last Commit",
            <<Txt("https://img.shields.io/github/last-commit/"), Fld("username"), Txt("/"), Fld("repo")>>,
            TRUE, <<Txt("https://github.com/"), Fld("username"), Txt("/"), Fld("repo"), Txt("/commits")>>),
     github_contributors |->
        BadgeTemplate("Contributors",
            <<Txt("https://img.shields.io/github/contributors/"), Fld("username"), Txt("/"), Fld("repo")>>,
            TRUE, <<Txt("https://github.com/"), Fld("username"), Txt("/"), Fld("repo"), Txt("/graphs/contributors")>>),
     github_release |->
        BadgeTemplate("Latest Release",
            <<Txt("https://img.shields.io/github/v/release/"), Fld("username"), Txt("/"), Fld("repo")>>,
            TRUE, <<Txt("https://github.com/"), Fld("username"), Txt("/"), Fld("repo"), Txt("/releases/latest")>>),
     github_actions |->
        BadgeTemplate("GitHub Actions",
            <<Txt("https://img.shields.io/github/actions/workflow/status/"), Fld("username"), Txt("/"), Fld("repo"), Txt("/"), Fld("workflow")>>,
            TRUE, <<Txt("https://github.com/"), Fld("username"), Txt("/"), Fld("repo"), Txt("/actions")>>),
     travis_ci |->
        BadgeTemplate("Travis CI",
            <<Txt("https://img.shields.io/travis/com/"), Fld("username"), Txt("/"), Fld("repo")>>,
            TRUE, <<Txt("https://travis-ci.com/"), Fld("username"), Txt("/"), Fld("repo")>>),
     circleci |->
        BadgeTemplate("CircleCI",
            <<Txt("https://img.shields.io/circleci/build/github/"), Fld("username"), Txt("/"), Fld("repo")>>,
            TRUE, <<Txt("https://circleci.com/gh/"), Fld("username"), Txt("/"), Fld("repo")>>),
     codecov |->
        BadgeTemplate("Code Coverage",
            <<Txt("https://img.shields.io/codecov/c/github/"), Fld("username"), Txt("/"), Fld("repo")>>,
            TRUE, <<Txt("https://codecov.io/gh/"), Fld("username"), Txt("/"), Fld("repo")>>),
     codeclimate |->
        BadgeTemplate("Code Climate",
            <<Txt("https://img.shields.io/codeclimate/maintainability/"), Fld("username"), Txt("/"), Fld("repo")>>,
            TRUE, <<Txt("https://codeclimate.com/github/"), Fld("username"), Txt("/"), Fld("repo")>>),
     python_version |->
        BadgeTemplate("Python Version",
            <<Txt("https://img.shields.io/pypi/pyversions/"), Fld("package")>>,
            TRUE, <<Txt("https://pypi.org/project/"), Fld("package"), Txt("/")>>),
     pypi_downloads |->
        BadgeTemplate("PyPI Downloads",
            <<Txt("https://img.shields.io/pypi/dm/"), Fld("package")>>,
            TRUE, <<Txt("https://pypi.org/project/"), Fld("package"), Txt("/")>>),
     npm_downloads |->
        BadgeTemplate("npm Downloads",
            <<Txt("https://img.shields.io/npm/dm/"), Fld("package")>>,
            TRUE, <<Txt("https://www.npmjs.com/package/"), Fld("package")>>),
     node_version |->
        BadgeTemplate("Node Version",
            <<Txt("https://img.shields.io/node/v/"), Fld("package")>>,
            FALSE, <<>>),
     docs |->
        BadgeTemplate("Documentation",
            <<Txt("https://img.shields.io/badge/docs-"), Fld("status"), Txt("-blue.svg")>>,
            TRUE, <<Fld("docs_url")>>),
     readthedocs |->
        BadgeTemplate("Read the Docs",
            <<Txt("https://img.shields.io/readthedocs/"), Fld("project")>>,
            TRUE, <<Txt("https://"), Fld("project"), Txt(".readthedocs.io/")>>),
     twitter |->
        BadgeTemplate("Twitter Follow",
            <<Txt("https://img.shields.io/twitter/follow/"), Fld("handle"), Txt("?style=social")>>,
            TRUE, <<Txt("https://twitter.com/"), Fld("handle")>>),
     discord |->
        BadgeTemplate("Discord",
            <<Txt("https://img.shields.io/discord/"), Fld("server_id")>>,
            TRUE, <<Fld("invite_link")>>),
     custom |->
        BadgeTemplate("Custom",
            <<Txt("https://img.shields.io/badge/"), Fld("label"), Txt("-"), Fld("message"), Txt("-"), Fld("color")>>,
            FALSE, <<>>),
     maintained |->
        BadgeTemplate("Maintained",
            <<Txt("https://img.shields.io/badge/maintained-yes-green.svg")>>,
            FALSE, <<>>),
     maintenance_status |->
        BadgeTemplate("Maintenance",
            <<Txt("https://img.shields.io/maintenance/"), Fld("status"), Txt("/"), Fld("year")>>,
            FALSE, <<>>),
     platform |->
        BadgeTemplate("Platform",
            <<Txt("https://img.shields.io/badge/platform-"), Fld("platforms"), Txt("-lightgrey")>>,
            FALSE, <<>>),
     made_with_python |->
        BadgeTemplate("Made with Python",
            <<Txt("https://img.shields.io/badge/Made%20with-Python-1f425f.svg")>>,
            TRUE, <<Txt("https://www.python.org/")>>),
     made_with_javascript |->
        BadgeTemplate("Made with JavaScript",
            <<Txt("https://img.shields.io/badge/Made%20with-JavaScript-f7df1e.svg")>>,
            TRUE, <<Txt("https://www.javascript.com/")>>),
     made_with_typescript |->
        BadgeTemplate("Made with TypeScript",
            <<Txt("https://img.shields.io/badge/Made%20with-TypeScript-3178c6.svg")>>,
            TRUE, <<Txt("https://www.typescriptlang.org/")>>),
     made_with_rust |->
        BadgeTemplate("Made with Rust",
            <<Txt("https://img.shields.io/badge/Made%20with-Rust-dea584.svg")>>,
            TRUE, <<Txt("https://www.rust-lang.org/")>>),
     made_with_go |->
        BadgeTemplate("Made with Go",
            <<Txt("https://img.shields.io/badge/Made%20with-Go-00add8.svg")>>,
            TRUE, <<Txt("https://go.dev/")>>)
    ]

\* fmt.format(**kwargs): [ok, out]; ok is FALSE when a field is not a key
\* of kwargs (KeyError, raised at the first such field)
RECURSIVE Format(_, _)
Format(parts, kwargs) ==
    IF parts = <<>> THEN [ok |-> TRUE, out |-> <<>>]
    ELSE IF ~parts[1].lit /\ parts[1].s \notin DOMAIN kwargs
         THEN [ok |-> FALSE, out |-> <<>>]
    ELSE LET rest == Format(Tail(parts), kwargs)
             one  == IF parts[1].lit THEN <<parts[1].s>> ELSE kwargs[parts[1].s]
         IN  IF ~rest.ok THEN [ok |-> FALSE, out |-> <<>>]
             ELSE [ok |-> TRUE, out |-> one \o rest.out]

\* Optional[str]
NoneStr == [none |-> TRUE, s |-> <<>>]
SomeStr(x) == [none |-> FALSE, s |-> x]

\* what generate_badge gives: an exception, None, or a Badge (alt is None)
BadgeRaised == [raised |-> TRUE,  none |-> TRUE,  name |-> "", url |-> <<>>, link |-> NoneStr]
BadgeNone   == [raised |-> FALSE, none |-> TRUE,  name |-> "", url |-> <<>>, link |-> NoneStr]
Badge(name, url, link) ==
    [raised |-> FALSE, none |-> FALSE, name |-> name, url |-> url, link |-> link]

\* lines 268-294
generate_badge(badge_type, kwargs) ==
    IF badge_type \notin DOMAIN BADGE_TEMPLATES THEN BadgeNone
    ELSE LET tmpl == BADGE_TEMPLATES[badge_type]
             url  == Format(tmpl.url, kwargs)
         IN  IF ~url.ok THEN BadgeNone
             ELSE IF ~tmpl.haslink THEN Badge(tmpl.name, url.out, NoneStr)
             ELSE LET link == Format(tmpl.link, kwargs)
                  IN  IF ~link.ok THEN BadgeNone
                      ELSE Badge(tmpl.name, url.out, SomeStr(link.out))

\* the badge types a caller passes: those of BADGE_TEMPLATES and one more
BadgeTypes == (DOMAIN BADGE_TEMPLATES) \cup {"nope"}

\* the keyword arguments a caller passes: any of these parameters
BadgeParams ==
    [username |-> <<"octo">>, repo |-> <<"demo">>, package |-> <<"demo-pkg">>,
     license |-> <<"MIT">>, workflow |-> <<"ci.yml">>, status |-> <<"stable">>,
     docs_url |-> <<"https://", "demo.io">>]

BadgeKwargs == {[k \in K |-> BadgeParams[k]] : K \in SUBSET DOMAIN BadgeParams}

\* lines 220-265
BADGE_PRESETS ==
    [
     minimal |-> <<"license">>,
     python_library |->
         <<"license_github", "pypi_version", "python_version",
           "pypi_downloads", "github_actions", "codecov">>,
     python_cli |->
         <<"license_github", "pypi_version", "python_version",
           "github_stars", "github_last_commit">>,
     node_package |->
         <<"license_github", "npm_version", "npm_downloads", "node_version",
           "github_actions">>,
     web_app |->
         <<"license_github", "github_stars", "github_issues",
           "github_last_commit", "github_actions">>,
     api |->
         <<"license_github", "github_actions", "codecov", "github_issues">>,
     github_standard |->
         <<"license_github", "github_stars", "github_forks", "github_issues",
           "github_last_commit">>
    ]

\* variant: a badge type that gives no badge ends the loop
RECURSIVE generate_badges_break(_, _)
generate_badges_break(badge_types, kwargs) ==
    IF badge_types = <<>> THEN <<>>
    ELSE LET b == generate_badge(badge_types[1], kwargs)
         IN  IF b.none THEN <<>>
             ELSE <<b>> \o generate_badges_break(Tail(badge_types), kwargs)

\* lines 297-316: the list `badges` after the loop
RECURSIVE generate_badges(_, _)
generate_badges(badge_types, kwargs) ==
    IF badge_types = <<>> THEN <<>>
    ELSE LET b == generate_badge(badge_types[1], kwargs)
         IN  (IF b.none THEN <<>> ELSE <<b>>)
             \o generate_badges(Tail(badge_types), kwargs)

\* BADGE_PRESETS.get(preset, BADGE_PRESETS["minimal"])
PresetGet(preset) ==
    IF preset \in DOMAIN BADGE_PRESETS THEN BADGE_PRESETS[preset]
    ELSE BADGE_PRESETS["minimal"]

\* lines 319-334
generate_badges_from_preset(preset, kwargs) ==
    generate_badges(PresetGet(preset), kwargs)

\* the presets a caller passes: those of BADGE_PRESETS and one more
Presets == (DOMAIN BADGE_PRESETS) \cup {"nope"}

VARIABLES
    badge,            \* [some, badge_type, kwargs, ret]: the last call of
                      \* generate_badge and what it gave
    badges            \* [some, preset, kwargs, ret]: the last call of
                      \* generate_badges_from_preset and what it gave

badge_vars == <<badge, badges>>

NoBadgeCall == [some |-> FALSE, badge_type |-> "", kwargs |-> <<>>, ret |-> BadgeNone]

NoPresetCall == [some |-> FALSE, preset |-> "", kwargs |-> <<>>, ret |-> <<>>]

\* no call of badges.py is pending
BadgesIdle == badge = NoBadgeCall /\ badges = NoPresetCall

\* ----------------------------------------------------------- licenses.py --
\* License identifiers, authors and file texts are texts as above; an
\* identifier is one character per atom (it is lowercased).  A license
\* template is a format string: one part per paragraph of literal text and
\* the fields {year} and {author}.

\* an entry of LICENSES (lines 11-388)
LicenseInfo(key, name, spdx_id, tmpl) ==
    [key |-> key, name |-> name, spdx_id |-> spdx_id, template |-> tmpl]

\* LICENSES["MIT"]["template"]
LicenseText_MIT ==
    <<
       Txt("MIT License\n"
           \o "\n"),
       Txt("Copyright (c) "),
       Fld("year"),
       Txt(" "),
       Fld("author"),
       Txt("\n"
           \o "\n"),
       Txt("Permission is hereby granted, free of charge, to any person obtaining a copy\n"
           \o "of this software and associated documentation files (the \"Software\"), to deal\n"
           \o "in the Software without restriction, including without limitation the rights\n"
           \o "to use, copy, modify, merge, publish, distribute, sublicense, and/or sell\n"
           \o "copies of the Software, and to permit persons to whom the Software is\n"
           \o "furnished to do so, subject to the following conditions:\n"
           \o "\n"),
       Txt("The above copyright notice and this permission notice shall be included in all\n"
           \o "copies or substantial portions of the Software.\n"
           \o "\n"),
       Txt("THE SOFTWARE IS PROVIDED \"AS IS\", WITHOUT WARRANTY OF ANY KIND, EXPRESS OR\n"
           \o "IMPLIED, INCLUDING BUT NOT LIMITED TO THE WARRANTIES OF MERCHANTABILITY,\n"
           \o "FITNESS FOR A PARTICULAR PURPOSE AND NONINFRINGEMENT. IN NO EVENT SHALL THE\n"
           \o "AUTHORS OR COPYRIGHT HOLDERS BE LIABLE FOR ANY CLAIM, DAMAGES OR OTHER\n"
           \o "LIABILITY, WHETHER IN AN ACTION OF CONTRACT, TORT OR OTHERWISE, ARISING FROM,\n"
           \o "OUT OF OR IN CONNECTION WITH THE SOFTWARE OR THE USE OR OTHER DEALINGS IN THE\n"
           \o "SOFTWARE.\n")
    >>

\* LICENSES["Apache-2.0"]["template"]
LicenseText_Apache_2_0 ==
    <<
       Txt("                                 Apache License\n"
           \o "                           Version 2.0, January 2004\n"
           \o "                        http://www.apache.org/licenses/\n"
           \o "\n"),
       Txt("   TERMS AND CONDITIONS FOR USE, REPRODUCTION, AND DISTRIBUTION\n"
           \o "\n"),
       Txt("   1. Definitions.\n"
           \o "\n"),
       Txt("      \"License\" shall mean the terms and conditions for use, reproduction,\n"
           \o "      and distribution as defined by Sections 1 through 9 of this document.\n"
           \o "\n"),
       Txt("      \"Licensor\" shall mean the copyright owner or entity authorized by\n"
           \o "      the copyright owner that is granting the License.\n"
           \o "\n"),
       Txt("      \"Legal Entity\" shall mean the union of the acting entity and all\n"
           \o "      other entities that control, are controlled by, or are under common\n"
           \o "      control with that entity. For the purposes of this definition,\n"
           \o "      \"control\" means (i) the power, direct or indirect, to cause the\n"
           \o "      direction or management of such entity, whether by contract or\n"
           \o "      otherwise, or (ii) ownership of fifty percent (50%) or more of the\n"
           \o "      outstanding shares, or (iii) beneficial ownership of such entity.\n"
           \o "\n"),
       Txt("      \"You\" (or \"Your\") shall mean an individual or Legal Entity\n"
           \o "      exercising permissions granted by this License.\n"
           \o "\n"),
       Txt("      \"Source\" form shall mean the preferred form for making modifications,\n"
           \o "      including but not limited to software source code, documentation\n"
           \o "      source, and configuration files.\n"
           \o "\n"),
       Txt("      \"Object\" form shall mean any form resulting from mechanical\n"
           \o "      transformation or translation of a Source form, including but\n"
           \o "      not limited to compiled object code, generated documentation,\n"
           \o "      and conversions to other media types.\n"
           \o "\n"),
       Txt("      \"Work\" shall mean the work of authorship, whether in Source or\n"
           \o "      Object form, made available under the License, as indicated by a\n"
           \o "      copyright notice that is included in or attached to the work\n"
           \o "      (an example is provided in the Appendix below).\n"
           \o "\n"),
       Txt("      \"Derivative Works\" shall mean any work, whether in Source or Object\n"
           \o "      form, that is based on (or derived from) the Work and for which the\n"
           \o "      editorial revisions, annotations, elaborations, or other modifications\n"
           \o "      represent, as a whole, an original work of authorship. For the purposes\n"
           \o "      of this License, Derivative Works shall not include works that remain\n"
           \o "      separable from, or merely link (or bind by name) to the interfaces of,\n"
           \o "      the Work and Derivative Works thereof.\n"
           \o "\n"),
       Txt("      \"Contribution\" shall mean any work of authorship, including\n"
           \o "      the original version of the Work and any modifications or additions\n"
           \o "      to that Work or Derivative Works thereof, that is intentionally\n"
           \o "      submitted to the Licensor for inclusion in the Work by the copyright owner\n"
           \o "      or by an individual or Legal Entity authorized to submit on behalf of\n"
           \o "      the copyright owner. For the purposes of this definition, \"submitted\"\n"
           \o "      means any form of electronic, verbal, or written communication sent\n"
           \o "      to the Licensor or its representatives, including but not limited to\n"
           \o "      communication on electronic mailing lists, source code control systems,\n"
           \o "      and issue tracking systems that are managed by, or on behalf of, the\n"
           \o "      Licensor for the purpose of discussing and improving the Work, but\n"
           \o "      excluding communication that is conspicuously marked or otherwise\n"
           \o "      designated in writing by the copyright owner as \"Not a Contribution.\"\n"
           \o "\n"),
       Txt("      \"Contributor\" shall mean Licensor and any individual or Legal Entity\n"
           \o "      on behalf of whom a Contribution has been received by Licensor and\n"
           \o "      subsequently incorporated within the Work.\n"
           \o "\n"),
       Txt("   2. Grant of Copyright License. Subject to the terms and conditions of\n"
           \o "      this License, each Contributor hereby grants to You a perpetual,\n"
           \o "      worldwide, non-exclusive, no-charge, royalty-free, irrevocable\n"
           \o "      copyright license to reproduce, prepare Derivative Works of,\n"
           \o "      publicly display, publicly perform, sublicense, and distribute the\n"
           \o "      Work and such Derivative Works in Source or Object form.\n"
           \o "\n"),
       Txt("   3. Grant of Patent License. Subject to the terms and conditions of\n"
           \o "      this License, each Contributor hereby grants to You a perpetual,\n"
           \o "      worldwide, non-exclusive, no-charge, royalty-free, irrevocable\n"
           \o "      (except as stated in this section) patent license to make, have made,\n"
           \o "      use, offer to sell, sell, import, and otherwise transfer the Work,\n"
           \o "      where such license applies only to those patent claims licensable\n"
           \o "      by such Contributor that are necessarily infringed by their\n"
           \o "      Contribution(s) alone or by combination of their Contribution(s)\n"
           \o "      with the Work to which such Contribution(s) was submitted. If You\n"
           \o "      institute patent litigation against any entity (including a\n"
           \o "      cross-claim or counterclaim in a lawsuit) alleging that the Work\n"
           \o "      or a Contribution incorporated within the Work constitutes direct\n"
           \o "      or contributory patent infringement, then any patent licenses\n"
           \o "      granted to You under this License for that Work shall terminate\n"
           \o "      as of the date such litigation is filed.\n"
           \o "\n"),
       Txt("   4. Redistribution. You may reproduce and distribute copies of the\n"
           \o "      Work or Derivative Works thereof in any medium, with or without\n"
           \o "      modifications, and in Source or Object form, provided that You\n"
           \o "      meet the following conditions:\n"
           \o "\n"),
       Txt("      (a) You must give any other recipients of the Work or\n"
           \o "          Derivative Works a copy of this License; and\n"
           \o "\n"),
       Txt("      (b) You must cause any modified files to carry prominent notices\n"
           \o "          stating that You changed the files; and\n"
           \o "\n"),
       Txt("      (c) You must retain, in the Source form of any Derivative Works\n"
           \o "          that You distribute, all copyright, patent, trademark, and\n"
           \o "          attribution notices from the Source form of the Work,\n"
           \o "          excluding those notices that do not pertain to any part of\n"
           \o "          the Derivative Works; and\n"
           \o "\n"),
       Txt("      (d) If the Work includes a \"NOTICE\" text file as part of its\n"
           \o "          distribution, then any Derivative Works that You distribute must\n"
           \o "          include a readable copy of the attribution notices contained\n"
           \o "          within such NOTICE file, excluding those notices that do not\n"
           \o "          pertain to any part of the Derivative Works, in at least one\n"
           \o "          of the following places: within a NOTICE text file distributed\n"
           \o "          as part of the Derivative Works; within the Source form or\n"
           \o "          documentation, if provided along with the Derivative Works; or,\n"
           \o "          within a display generated by the Derivative Works, if and\n"
           \o "          wherever such third-party notices normally appear. The contents\n"
           \o "          of the NOTICE file are for informational purposes only and\n"
           \o "          do not modify the License. You may add Your own attribution\n"
           \o "          notices within Derivative Works that You distribute, alongside\n"
           \o "          or as an addendum to the NOTICE text from the Work, provided\n"
           \o "          that such additional attribution notices cannot be construed\n"
           \o "          as modifying the License.\n"
           \o "\n"),
       Txt("      You may add Your own copyright statement to Your modifications and\n"
           \o "      may provide additional or different license terms and conditions\n"
           \o "      for use, reproduction, or distribution of Your modifications, or\n"
           \o "      for any such Derivative Works as a whole, provided Your use,\n"
           \o "      reproduction, and distribution of the Work otherwise complies with\n"
           \o "      the conditions stated in this License.\n"
           \o "\n"),
       Txt("   5. Submission of Contributions. Unless You explicitly state otherwise,\n"
           \o "      any Contribution intentionally submitted for inclusion in the Work\n"
           \o "      by You to the Licensor shall be under the terms and conditions of\n"
           \o "      this License, without any additional terms or conditions.\n"
           \o "      Notwithstanding the above, nothing herein shall supersede or modify\n"
           \o "      the terms of any separate license agreement you may have executed\n"
           \o "      with Licensor regarding such Contributions.\n"
           \o "\n"),
       Txt("   6. Trademarks. This License does not grant permission to use the trade\n"
           \o "      names, trademarks, service marks, or product names of the Licensor,\n"
           \o "      except as required for reasonable and customary use in describing the\n"
           \o "      origin of the Work and reproducing the content of the NOTICE file.\n"
           \o "\n"),
       Txt("   7. Disclaimer of Warranty. Unless required by applicable law or\n"
           \o "      agreed to in writing, Licensor provides the Work (and each\n"
           \o "      Contributor provides its Contributions) on an \"AS IS\" BASIS,\n"
           \o "      WITHOUT WARRANTIES OR CONDITIONS OF ANY KIND, either express or\n"
           \o "      implied, including, without limitation, any warranties or conditions\n"
           \o "      of TITLE, NON-INFRINGEMENT, MERCHANTABILITY, or FITNESS FOR A\n"
           \o "      PARTICULAR PURPOSE. You are solely responsible for determining the\n"
           \o "      appropriateness of using or redistributing the Work and assume any\n"
           \o "      risks associated with Your exercise of permissions under this License.\n"
           \o "\n"),
       Txt("   8. Limitation of Liability. In no event and under no legal theory,\n"
           \o "      whether in tort (including negligence), contract, or otherwise,\n"
           \o "      unless required by applicable law (such as deliberate and grossly\n"
           \o "      negligent acts) or agreed to in writing, shall any Contributor be\n"
           \o "      liable to You for damages, including any direct, indirect, special,\n"
           \o "      incidental, or consequential damages of any character arising as a\n"
           \o "      result of this License or out of the use or inability to use the\n"
           \o "      Work (including but not limited to damages for loss of goodwill,\n"
           \o "      work stoppage, computer failure or malfunction, or any and all\n"
           \o "      other commercial damages or losses), even if such Contributor\n"
           \o "      has been advised of the possibility of such damages.\n"
           \o "\n"),
       Txt("   9. Accepting Warranty or Additional Liability. While redistributing\n"
           \o "      the Work or Derivative Works thereof, You may choose to offer,\n"
           \o "      and charge a fee for, acceptance of support, warranty, indemnity,\n"
           \o "      or other liability obligations and/or rights consistent with this\n"
           \o "      License. However, in accepting such obligations, You may act only\n"
           \o "      on Your own behalf and on Your sole responsibility, not on behalf\n"
           \o "      of any other Contributor, and only if You agree to indemnify,\n"
           \o "      defend, and hold each Contributor harmless for any liability\n"
           \o "      incurred by, or claims asserted against, such Contributor by reason\n"
           \o "      of your accepting any such warranty or additional liability.\n"
           \o "\n"),
       Txt("   END OF TERMS AND CONDITIONS\n"
           \o "\n"),
       Txt("   Copyright "),
       Fld("year"),
       Txt(" "),
       Fld("author"),
       Txt("\n"
           \o "\n"),
       Txt("   Licensed under the Apache License, Version 2.0 (the \"License\");\n"
           \o "   you may not use this file except in compliance with the License.\n"
           \o "   You may obtain a copy of the License at\n"
           \o "\n"),
       Txt("       http://www.apache.org/licenses/LICENSE-2.0\n"
           \o "\n"),
       Txt("   Unless required by applicable law or agreed to in writing, software\n"
           \o "   distributed under the License is distributed on an \"AS IS\" BASIS,\n"
           \o "   WITHOUT WARRANTIES OR CONDITIONS OF ANY KIND, either express or implied.\n"
           \o "   See the License for the specific language governing permissions and\n"
           \o "   limitations under the License.\n")
    >>

\* LICENSES["GPL-3.0"]["template"]
LicenseText_GPL_3_0 ==
    <<
       Txt("GNU GENERAL PUBLIC LICENSE\n"
           \o "Version 3, 29 June 2007\n"
           \o "\n"),
       Txt("Copyright (C) 2007 Free Software Foundation, Inc. <https://fsf.org/>\n"
           \o "\n"),
       Txt("Everyone is permitted to copy and distribute verbatim copies of this\n"
           \o "license document, but changing it is not allowed.\n"
           \o "\n"),
       Txt("[Full GPL-3.0 license text would go here - abbreviated for space]\n"
           \o "\n"),
       Txt("Copyright "),
       Fld("year"),
       Txt(" "),
       Fld("author"),
       Txt("\n"
           \o "\n"),
       Txt("This program is free software: you can redistribute it and/or modify\n"
           \o "it under the terms of the GNU General Public License as published by\n"
           \o "the Free Software Foundation, either version 3 of the License, or\n"
           \o "(at your option) any later version.\n"
           \o "\n"),
       Txt("This program is distributed in the hope that it will be useful,\n"
           \o "but WITHOUT ANY WARRANTY; without even the implied warranty of\n"
           \o "MERCHANTABILITY or FITNESS FOR A PARTICULAR PURPOSE.  See the\n"
           \o "GNU General Public License for more details.\n"
           \o "\n"),
       Txt("You should have received a copy of the GNU General Public License\n"
           \o "along with this program.  If not, see <https://www.gnu.org/licenses/>.\n")
    >>

\* LICENSES["BSD-3-Clause"]["template"]
LicenseText_BSD_3_Clause ==
    <<
       Txt("BSD 3-Clause License\n"
           \o "\n"),
       Txt("Copyright (c) "),
       Fld("year"),
       Txt(", "),
       Fld("author"),
       Txt("\n"),
       Txt("All rights reserved.\n"
           \o "\n"),
       Txt("Redistribution and use in source and binary forms, with or without\n"
           \o "modification, are permitted provided that the following conditions are met:\n"
           \o "\n"),
       Txt("1. Redistributions of source code must retain the above copyright notice, this\n"
           \o "   list of conditions and the following disclaimer.\n"
           \o "\n"),
       Txt("2. Redistributions in binary form must reproduce the above copyright notice,\n"
           \o "   this list of conditions and the following disclaimer in the documentation\n"
           \o "   and/or other materials provided with the distribution.\n"
           \o "\n"),
       Txt("3. Neither the name of the copyright holder nor the names of its\n"
           \o "   contributors may be used to endorse or promote products derived from\n"
           \o "   this software without specific prior written permission.\n"
           \o "\n"),
       Txt("THIS SOFTWARE IS PROVIDED BY THE COPYRIGHT HOLDERS AND CONTRIBUTORS \"AS IS\"\n"
           \o "AND ANY EXPRESS OR IMPLIED WARRANTIES, INCLUDING, BUT NOT LIMITED TO, THE\n"
           \o "IMPLIED WARRANTIES OF MERCHANTABILITY AND FITNESS FOR A PARTICULAR PURPOSE ARE\n"
           \o "DISCLAIMED. IN NO EVENT SHALL THE COPYRIGHT HOLDER OR CONTRIBUTORS BE LIABLE\n"
           \o "FOR ANY DIRECT, INDIRECT, INCIDENTAL, SPECIAL, EXEMPLARY, OR CONSEQUENTIAL\n"
           \o "DAMAGES (INCLUDING, BUT NOT LIMITED TO, PROCUREMENT OF SUBSTITUTE GOODS OR\n"
           \o "SERVICES; LOSS OF USE, DATA, OR PROFITS; OR BUSINESS INTERRUPTION) HOWEVER\n"
           \o "CAUSED AND ON ANY THEORY OF LIABILITY, WHETHER IN CONTRACT, STRICT LIABILITY,\n"
           \o "OR TORT (INCLUDING NEGLIGENCE OR OTHERWISE) ARISING IN ANY WAY OUT OF THE USE\n"
           \o "OF THIS SOFTWARE, EVEN IF ADVISED OF THE POSSIBILITY OF SUCH DAMAGE.\n")
    >>

\* LICENSES["ISC"]["template"]
LicenseText_ISC ==
    <<
       Txt("ISC License\n"
           \o "\n"),
       Txt("Copyright (c) "),
       Fld("year"),
       Txt(", "),
       Fld("author"),
       Txt("\n"
           \o "\n"),
       Txt("Permission to use, copy, modify, and/or distribute this software for any\n"
           \o "purpose with or without fee is hereby granted, provided that the above\n"
           \o "copyright notice and this permission notice appear in all copies.\n"
           \o "\n"),
       Txt("THE SOFTWARE IS PROVIDED \"AS IS\" AND THE AUTHOR DISCLAIMS ALL WARRANTIES\n"
           \o "WITH REGARD TO THIS SOFTWARE INCLUDING ALL IMPLIED WARRANTIES OF\n"
           \o "MERCHANTABILITY AND FITNESS. IN NO EVENT SHALL THE AUTHOR BE LIABLE FOR\n"
           \o "ANY SPECIAL, DIRECT, INDIRECT, OR CONSEQUENTIAL DAMAGES OR ANY DAMAGES\n"
           \o "WHATSOEVER RESULTING FROM LOSS OF USE, DATA OR PROFITS, WHETHER IN AN\n"
           \o "ACTION OF CONTRACT, NEGLIGENCE OR OTHER TORTIOUS ACTION, ARISING OUT OF\n"
           \o "OR IN CONNECTION WITH THE USE OR PERFORMANCE OF THIS SOFTWARE.\n")
    >>

\* LICENSES["Unlicense"]["template"]
LicenseText_Unlicense ==
    <<
       Txt("This is free and unencumbered software released into the public domain.\n"
           \o "\n"),
       Txt("Anyone is free to copy, modify, publish, use, compile, sell, or\n"
           \o "distribute this software, either in source code form or as a compiled\n"
           \o "binary, for any purpose, commercial or non-commercial, and by any\n"
           \o "means.\n"
           \o "\n"),
       Txt("In jurisdictions that recognize copyright laws, the author or authors\n"
           \o "of this software dedicate any and all copyright interest in the\n"
           \o "software to the public domain. We make this dedication for the benefit\n"
           \o "of the public at large and to the detriment of our heirs and\n"
           \o "successors. We intend this dedication to be an overt act of\n"
           \o "relinquishment in perpetuity of all present and future rights to this\n"
           \o "software under copyright law.\n"
           \o "\n"),
       Txt("THE SOFTWARE IS PROVIDED \"AS IS\", WITHOUT WARRANTY OF ANY KIND,\n"
           \o "EXPRESS OR IMPLIED, INCLUDING BUT NOT LIMITED TO THE WARRANTIES OF\n"
           \o "MERCHANTABILITY, FITNESS FOR A PARTICULAR PURPOSE AND NONINFRINGEMENT.\n"
           \o "IN NO EVENT SHALL THE AUTHORS BE LIABLE FOR ANY CLAIM, DAMAGES OR\n"
           \o "OTHER LIABILITY, WHETHER IN AN ACTION OF CONTRACT, TORT OR OTHERWISE,\n"
           \o "ARISING FROM, OUT OF OR IN CONNECTION WITH THE SOFTWARE OR THE USE OR\n"
           \o "OTHER DEALINGS IN THE SOFTWARE.\n"
           \o "\n"),
       Txt("For more information, please refer to <https://unlicense.org>\n")
    >>

\* LICENSES["MPL-2.0"]["template"]
LicenseText_MPL_2_0 ==
    <<
       Txt("Mozilla Public License Version 2.0\n"
           \o "==================================\n"
           \o "\n"),
       Txt("[Full MPL 2.0 text would go here - abbreviated for space]\n"
           \o "\n"),
       Txt("This Source Code Form is subject to the terms of the Mozilla Public\n"
           \o "License, v. 2.0. If a copy of the MPL was not distributed with this\n"
           \o "file, You can obtain one at https://mozilla.org/MPL/2.0/.\n"
           \o "\n"),
       Txt("Copyright "),
       Fld("year"),
       Txt(" "),
       Fld("author"),
       Txt("\n")
    >>

\* key, "name", "spdx_id" and "template" of each entry of LICENSES
LICENSES ==
    <<
       LicenseInfo(<<"M", "I", "T">>,
                   "MIT License",
                   <<"M", "I", "T">>,
                   LicenseText_MIT),
       LicenseInfo(<<"A", "p", "a", "c", "h", "e", "-", "2", ".", "0">>,
                   "Apache License 2.0",
                   <<"A", "p", "a", "c", "h", "e", "-", "2", ".", "0">>,
                   LicenseText_Apache_2_0),
       LicenseInfo(<<"G", "P", "L", "-", "3", ".", "0">>,
                   "GNU General Public License v3.0",
                   <<"G", "P", "L", "-", "3", ".", "0">>,
                   LicenseText_GPL_3_0),
       LicenseInfo(<<"B", "S", "D", "-", "3", "-", "C", "l", "a", "u", "s", "e">>,
                   "BSD 3-Clause License",
                   <<"B", "S", "D", "-", "3", "-", "C", "l", "a", "u", "s", "e">>,
                   LicenseText_BSD_3_Clause),
       LicenseInfo(<<"I", "S", "C">>,
                   "ISC License",
                   <<"I", "S", "C">>,
                   LicenseText_ISC),
       LicenseInfo(<<"U", "n", "l", "i", "c", "e", "n", "s", "e">>,
                   "The Unlicense",
                   <<"U", "n", "l", "i", "c", "e", "n", "s", "e">>,
                   LicenseText_Unlicense),
       LicenseInfo(<<"M", "P", "L", "-", "2", ".", "0">>,
                   "Mozilla Public License 2.0",
                   <<"M", "P", "L", "-", "2", ".", "0">>,
                   LicenseText_MPL_2_0)
    >>

LICENSE_ALIASES ==
    <<
       <<<<"m", "i", "t">>,
         <<"M", "I", "T">>>>,
       <<<<"a", "p", "a", "c", "h", "e">>,
         <<"A", "p", "a", "c", "h", "e", "-", "2", ".", "0">>>>,
       <<<<"a", "p", "a", "c", "h", "e", " ", "2", ".", "0">>,
         <<"A", "p", "a", "c", "h", "e", "-", "2", ".", "0">>>>,
       <<<<"a", "p", "a", "c", "h", "e", "2">>,
         <<"A", "p", "a", "c", "h", "e", "-", "2", ".", "0">>>>,
       <<<<"a", "p", "a", "c", "h", "e", "-", "2">>,
         <<"A", "p", "a", "c", "h", "e", "-", "2", ".", "0">>>>,
       <<<<"g", "p", "l">>,
         <<"G", "P", "L", "-", "3", ".", "0">>>>,
       <<<<"g", "p", "l", "3">>,
         <<"G", "P", "L", "-", "3", ".", "0">>>>,
       <<<<"g", "p", "l", "-", "3">>,
         <<"G", "P", "L", "-", "3", ".", "0">>>>,
       <<<<"g", "p", "l", "v", "3">>,
         <<"G", "P", "L", "-", "3", ".", "0">>>>,
       <<<<"b", "s", "d">>,
         <<"B", "S", "D", "-", "3", "-", "C", "l", "a", "u", "s", "e">>>>,
       <<<<"b", "s", "d", "3">>,
         <<"B", "S", "D", "-", "3", "-", "C", "l", "a", "u", "s", "e">>>>,
       <<<<"b", "s", "d", "-", "3">>,
         <<"B", "S", "D", "-", "3", "-", "C", "l", "a", "u", "s", "e">>>>,
       <<<<"i", "s", "c">>,
         <<"I", "S", "C">>>>,
       <<<<"u", "n", "l", "i", "c", "e", "n", "s", "e">>,
         <<"U", "n", "l", "i", "c", "e", "n", "s", "e">>>>,
       <<<<"p", "u", "b", "l", "i", "c", " ", "d", "o", "m", "a", "i", "n">>,
         <<"U", "n", "l", "i", "c", "e", "n", "s", "e">>>>,
       <<<<"m", "p", "l">>,
         <<"M", "P", "L", "-", "2", ".", "0">>>>,
       <<<<"m", "p", "l", "2">>,
         <<"M", "P", "L", "-", "2", ".", "0">>>>,
       <<<<"m", "p", "l", "-", "2">>,
         <<"M", "P", "L", "-", "2", ".", "0">>>>,
       <<<<"m", "o", "z", "i", "l", "l", "a">>,
         <<"M", "P", "L", "-", "2", ".", "0">>>>
    >>

\* Optional[Dict]
NoneInfo == [none |-> TRUE, info |-> LicenseInfo(<<>>, "", <<>>, <<>>)]
SomeInfo(info) == [none |-> FALSE, info |-> info]

\* Optional[int]
NoneInt == [none |-> TRUE, n |-> 0]
SomeInt(n) == [none |-> FALSE, n |-> n]

\* LICENSE_ALIASES.get(key, default)
AliasGet(key, default) ==
    IF \E j \in DOMAIN LICENSE_ALIASES : LICENSE_ALIASES[j][1] = key
    THEN LICENSE_ALIASES[CHOOSE j \in DOMAIN LICENSE_ALIASES :
                            LICENSE_ALIASES[j][1] = key][2]
    ELSE default

\* LICENSES.get(key)
LicensesGet(key) ==
    IF \E j \in DOMAIN LICENSES : LICENSES[j].key = key
    THEN SomeInfo(LICENSES[CHOOSE j \in DOMAIN LICENSES : LICENSES[j].key = key])
    ELSE NoneInfo

\* variant: the identifier is looked up without the alias table
get_license_info_exact(license_id) == LicensesGet(license_id)

\* lines 417-421
get_license_info(license_id) ==
    LET normalized == AliasGet(StrLower(license_id), license_id)
    IN  LicensesGet(normalized)

\* lines 426-450: [raised, ret]; now is datetime.now().year
generate_license_text(license_id, author, year, now) ==
    LET y            == IF year.none THEN now ELSE year.n
        license_info == get_license_info(license_id)
    IN  IF license_info.none THEN [raised |-> FALSE, ret |-> NoneStr]
        ELSE LET text == Format(license_info.info.template,
                                [year |-> IntStr(y), author |-> author])
             IN  IF text.ok THEN [raised |-> FALSE, ret |-> SomeStr(text.out)]
                 ELSE [raised |-> TRUE, ret |-> NoneStr]

\* lines 483-489
get_license_badge_name(license_id) ==
    LET normalized   == AliasGet(StrLower(license_id), license_id)
        license_info == LicensesGet(normalized)
    IN  IF ~license_info.none THEN license_info.info.spdx_id ELSE license_id

\* a file of the file system: absent, or present with a text
Absent == [exists |-> FALSE, text |-> <<>>]
File(text) == [exists |-> TRUE, text |-> text]

\* the paths a caller writes to, and what is there before the first call
Paths == {"LICENSE", "docs/LICENSE"}
OldText == <<"All rights reserved.\n">>
InitialFiles == [Paths -> {Absent, File(OldText)}]

\* what open(output_path, "w") and f.write(text) do: both succeed, open
\* raises (the file is left alone), or the write raises after open has
\* created or truncated the file and `written` parts of the text got out
Faults == {"none", "open", "write"}
Written == {0, 1}

\* the identifiers, authors and years a caller of save_license_file passes
SaveIds ==
    { <<"M", "I", "T">>, <<"m", "i", "t">>, <<"M", "i", "t">>,
      <<"A", "P", "A", "C", "H", "E">>,
      <<"U", "n", "l", "i", "c", "e", "n", "s", "e">>,
      <<"g", "p", "l", "-", "3", ".", "0">>,
      <<"N", "o", "n", "e">>, <<>> }
Authors == { <<"Ada Lovelace">> }
Years == {NoneInt, SomeInt(2020)}
NowYears == {2025, 2026}

\* str.upper and str.capitalize on the letters of LowerOf
UpperChar(c) ==
    IF \E u \in DOMAIN LowerOf : LowerOf[u] = c
    THEN CHOOSE u \in DOMAIN LowerOf : LowerOf[u] = c
    ELSE c
StrUpper(s) == [j \in 1..Len(s) |-> UpperChar(s[j])]
Capitalize(s) == [j \in 1..Len(s) |-> IF j = 1 THEN UpperChar(s[j]) ELSE s[j]]

\* the identifiers a caller of get_license_info and get_license_badge_name
\* passes: every key of LICENSES and of LICENSE_ALIASES, as written, in
\* lower case, in upper case and capitalized, and some that are neither
LookupIds ==
    LET written == {LICENSES[j].key : j \in DOMAIN LICENSES}
                     \cup {LICENSE_ALIASES[j][1] : j \in DOMAIN LICENSE_ALIASES}
    IN  written
        \cup {StrLower(s) : s \in written}
        \cup {StrUpper(s) : s \in written}
        \cup {Capitalize(s) : s \in written}
        \cup { <<"N", "o", "n", "e">>, <<>>,
               <<"B", "S", "D", "-", "2", "-", "C", "l", "a", "u", "s", "e">>,
               <<"W", "T", "F", "P", "L">>, <<"m", "i", "t", " ">> }

VARIABLES
    files,            \* the file system: path -> file
    lic,              \* the last call of save_license_file: its arguments,
                      \* the text generate_license_text gave, what the
                      \* file system did, and what the call gave
    license_info,     \* [some, license_id, ret]: the last call of
                      \* get_license_info
    badge_name        \* [some, license_id, ret]: the last call of
                      \* get_license_badge_name

license_vars == <<files, lic, license_info, badge_name>>

NoLicenseCall ==
    [some |-> FALSE, license_id |-> <<>>, author |-> <<>>, output_path |-> "",
     year |-> NoneInt, now |-> 0, text |-> NoneStr, fault |-> "none",
     raised |-> FALSE, ret |-> FALSE, files0 |-> <<>>]

NoInfoCall == [some |-> FALSE, license_id |-> <<>>, ret |-> NoneInfo]

NoNameCall == [some |-> FALSE, license_id |-> <<>>, ret |-> <<>>]

\* no call of licenses.py is pending
NoLicensePending == ~lic.some /\ ~license_info.some /\ ~badge_name.some

\* licenses.py is loaded and idle
LicensesIdle ==
    /\ files = [p \in Paths |-> Absent]
    /\ lic = NoLicenseCall
    /\ license_info = NoInfoCall
    /\ badge_name = NoNameCall


\* ---------------------------------------------------------- git_utils.py --
\* detect_project_type reads a directory.  A text file of it is absent,
\* present but not readable (open or read raises), or readable with a
\* content; a content is the set of the words that occur in it.
\* package.json is absent, not loadable (open or json.load raises), or
\* loads as an object with or without the key "bin" and with a value of
\* "dependencies" that is missing, a set of names, or null.

NoFile == [st |-> "absent", content |-> {}]
Unreadable == [st |-> "unreadable", content |-> {}]
Text(content) == [st |-> "ok", content |-> content]

NoPackage == [st |-> "absent", bin |-> FALSE, deps |-> "missing", names |-> {}]
BadPackage == [st |-> "unreadable", bin |-> FALSE, deps |-> "missing", names |-> {}]
Package(bin, deps, names) == [st |-> "ok", bin |-> bin, deps |-> deps, names |-> names]

\* str.lower on the words of a content
LowerWord(w) ==
    CASE w = "Django"  -> "django"
      [] w = "Flask"   -> "flask"
      [] w = "FastAPI" -> "fastapi"
      [] OTHER         -> w
Lower(content) == {LowerWord(w) : w \in content}

\* any(w in content for w in words)
AnyIn(words, content) == \E w \in words : w \in content

\* the directories detect_project_type is called on
PackageJsons ==
    { NoPackage, BadPackage,
      Package(TRUE, "missing", {}), Package(FALSE, "missing", {}),
      Package(FALSE, "null", {}),
      Package(FALSE, "names", {"express", "react"}),
      Package(FALSE, "names", {"vue", "lodash"}) }
PyprojectTomls ==
    { NoFile, Unreadable, Text({"[tool.poetry.scripts]"}),
      Text({"Django"}), Text({"requests"}) }
SetupPys == { NoFile, Unreadable, Text({"entry_points"}), Text({"setuptools"}) }
RequirementsTxts == { NoFile, Unreadable, Text({"FastAPI", "starlette"}) }
Pipfiles == { NoFile, Text({"flask", "rest_framework"}) }
GoMods == { NoFile, Unreadable, Text({"module"}) }
CargoTomls == { NoFile, Unreadable, Text({"clap"}) }

Dirs ==
    [package_json : PackageJsons, pyproject_toml : PyprojectTomls,
     setup_py : SetupPys, requirements_txt : RequirementsTxts,
     Pipfile : Pipfiles, go_mod : GoMods, cmd : BOOLEAN,
     Cargo_toml : CargoTomls, Dockerfile : BOOLEAN,
     docker_compose_yml : BOOLEAN]

\* what detect_project_type gives: an exception or a str
TypeRaised == [raised |-> TRUE, ret |-> ""]
Type(ret) == [raised |-> FALSE, ret |-> ret]
NoType == [raised |-> FALSE, ret |-> ""]

\* lines 294-306: a type, NoType when the block falls through
\* variant: the block without its try
FromPackageJson_notry(pkg) ==
    IF pkg.st = "absent" THEN NoType
    ELSE IF pkg.st = "unreadable" THEN TypeRaised
    ELSE IF pkg.bin THEN Type("cli_tool")
    ELSE IF pkg.deps = "null" THEN TypeRaised
    ELSE IF AnyIn({"express", "fastify", "koa", "hapi", "nest"}, pkg.names)
         THEN Type("api")
    ELSE IF AnyIn({"react", "vue", "angular", "svelte", "next", "nuxt"}, pkg.names)
         THEN Type("web_app")
    ELSE NoType

FromPackageJson(pkg) ==
    IF pkg.st = "absent" THEN NoType
    ELSE IF pkg.st = "unreadable" THEN NoType
    ELSE IF pkg.bin THEN Type("cli_tool")
    ELSE IF pkg.deps = "null" THEN NoType
    ELSE IF AnyIn({"express", "fastify", "koa", "hapi", "nest"}, pkg.names)
         THEN Type("api")
    ELSE IF AnyIn({"react", "vue", "angular", "svelte", "next", "nuxt"}, pkg.names)
         THEN Type("web_app")
    ELSE NoType

\* lines 310-322: the try that looks for console scripts
FromScripts(dir) ==
    IF dir.pyproject_toml.st = "unreadable" THEN NoType
    ELSE IF dir.pyproject_toml.st = "ok"
            /\ AnyIn({"[tool.poetry.scripts]", "console_scripts"},
                     dir.pyproject_toml.content)
         THEN Type("cli_tool")
    ELSE IF dir.setup_py.st = "unreadable" THEN NoType
    ELSE IF dir.setup_py.st = "ok"
            /\ AnyIn({"entry_points", "console_scripts"}, dir.setup_py.content)
         THEN Type("cli_tool")
    ELSE NoType

\* lines 327-336: one requirements file
FromRequirements(file) ==
    IF file.st # "ok" THEN NoType
    ELSE LET content == Lower(file.content)
         IN  IF AnyIn({"django", "flask", "fastapi", "starlette"}, content)
             THEN IF AnyIn({"fastapi", "drf", "rest_framework"}, content)
                  THEN Type("api")
                  ELSE Type("web_app")
             ELSE NoType

\* lines 325-338: the loop over the requirements files
RECURSIVE FromRequirementsFiles(_)
FromRequirementsFiles(req_files) ==
    IF req_files = <<>> THEN Type("python_library")
    ELSE LET r == FromRequirements(req_files[1])
         IN  IF r # NoType THEN r ELSE FromRequirementsFiles(Tail(req_files))

\* lines 309-338
FromPython(dir) ==
    LET r == FromScripts(dir)
    IN  IF r # NoType THEN r
        ELSE FromRequirementsFiles(<<dir.requirements_txt, dir.Pipfile,
                                     dir.pyproject_toml>>)

\* lines 341-349
FromGo(dir) ==
    IF dir.go_mod.st = "ok" /\ dir.cmd THEN Type("cli_tool") ELSE NoType

\* lines 352-359
FromCargo(dir) ==
    IF dir.Cargo_toml.st = "ok" /\ AnyIn({"[[bin]]", "clap"}, dir.Cargo_toml.content)
    THEN Type("cli_tool")
    ELSE NoType

\* lines 281-365
detect_project_type(dir) ==
    LET node == FromPackageJson(dir.package_json)
    IN  IF node # NoType THEN node
        ELSE IF dir.pyproject_toml.st # "absent" \/ dir.setup_py.st # "absent"
        THEN FromPython(dir)
        ELSE IF FromGo(dir) # NoType THEN FromGo(dir)
        ELSE IF FromCargo(dir) # NoType THEN FromCargo(dir)
        ELSE IF dir.Dockerfile \/ dir.docker_compose_yml THEN Type("api")
        ELSE Type("standard")

VARIABLE project      \* [some, dir, ret]: the last call of
                      \* detect_project_type and what it gave

NoDir ==
    [package_json |-> NoPackage, pyproject_toml |-> NoFile, setup_py |-> NoFile,
     requirements_txt |-> NoFile, Pipfile |-> NoFile, go_mod |-> NoFile,
     cmd |-> FALSE, Cargo_toml |-> NoFile, Dockerfile |-> FALSE,
     docker_compose_yml |-> FALSE]

NoProjectCall == [some |-> FALSE, dir |-> NoDir, ret |-> NoType]

\* --------------------------------------------------------------- main.py --
\* The command `generate` from line 343 on.  Lines 306-341 make the
\* template name and the context from the options and the answers of the
\* user; the command writes the README, the configuration file and,
\* through save_license_file, the file LICENSE.

\* the README that may be there before the command runs
OldReadme == <<"# Old", NL>>

\* the configuration file: absent, or present; when it is valid JSON it
\* holds a context
NoConfigFile == [exists |-> FALSE, valid |-> FALSE, context |-> EmptyContext]
BrokenConfigFile == [exists |-> TRUE, valid |-> FALSE, context |-> EmptyContext]
ConfigFile(ctx) == [exists |-> TRUE, valid |-> TRUE, context |-> ctx]

\* line 272: the items of the context that json can write
Serializable(ctx) ==
    [k \in {x \in DOMAIN ctx : ctx[x].t \in {"str", "int", "list", "map"}} |-> ctx[k]]

\* context.get(key, default) as a value
CtxGet(ctx, key, default) == IF key \in DOMAIN ctx THEN ctx[key] ELSE default

VARIABLE run          \* the run of `generate`: where it is (pc), its locals
                      \* template, context, preview and readme_content, the
                      \* files readme and config, and as history the context
                      \* and the files it started with, whether the user
                      \* declined to save, and the log of the files written

Run(readme, config, fs) ==
    [pc |-> "idle", template |-> "", context |-> EmptyContext, preview |-> FALSE,
     readme_content |-> <<>>, readme |-> readme, config |-> config,
     context0 |-> EmptyContext, readme0 |-> readme, config0 |-> config,
     files0 |-> fs, cancelled |-> FALSE, log |-> <<>>]

\* no run of the command
NoRun == Run(Absent, NoConfigFile, [p \in Paths |-> Absent])

\* ------------------------------------------------------ render_template --

\* the most calls of render_template in one run
MaxCalls == 2

VARIABLES
    TEMPLATES,        \* the catalog: template name -> Template
    context,          \* the caller's context object (a dict)
    pc,               \* "idle", "toc", "render", "done" or "raised"
    template_name,    \* the argument of the running call
    template,         \* the resolved template
    sorted_sections,  \* sorted(template.sections, key=order)
    idx,              \* position of the render loop in sorted_sections
    rendered_parts,   \* the texts appended so far
    result,           \* [some, v]: the value returned by the last call
    calls,            \* calls made so far
    context0,         \* history: the context when the call was made
    kept,             \* history: positions whose text was appended
    dropped,          \* history: positions whose rendering raised
    prev,             \* history: [some, name, v, context0], the call made before this
                      \* one on the same context object and what it returned
    section_names     \* [some, name, v]: the last call of get_section_names

\* the variables of templates.py
template_vars ==
    <<TEMPLATES, objects, context, pc, template_name, template, sorted_sections,
      idx, rendered_parts, result, calls, context0, kept, dropped, prev,
      section_names>>

\* the variables of the other modules
other_vars == <<badge_vars, license_vars, project, run>>

vars == <<template_vars, other_vars>>

NoResult == [some |-> FALSE, v |-> <<>>]

NoCall == [some |-> FALSE, name |-> "", v |-> <<>>]

NoPrev == [some |-> FALSE, name |-> "", v |-> <<>>, context0 |-> EmptyContext]

\* get_template: TEMPLATES.get(template_name); None is [some |-> FALSE]
get_template(T, name) ==
    IF name \in DOMAIN T THEN [some |-> TRUE, v |-> T[name]]
    ELSE [some |-> FALSE, v |-> Template("", <<>>)]

\* the name of the fallback template
DefaultName == "standard"

\* variant: the fallback is another template of the catalog
ResolveTemplate_minimal(T, name) ==
    IF get_template(T, name).some THEN get_template(T, name).v ELSE T["minimal"]

\* lines 448-450: the template rendered for a name
ResolveTemplate(T, name) ==
    IF get_template(T, name).some THEN get_template(T, name).v ELSE T[DefaultName]

\* variant: the element goes before its equals, the sort is not stable
InsertByOrder_unstable(x, s) ==
    LET n == Cardinality({j \in 1..Len(s) : SectionAt(s[j]).order < SectionAt(x).order})
    IN  SubSeq(s, 1, n) \o <<x>> \o SubSeq(s, n + 1, Len(s))

\* list.insert after every element whose key is not greater: one step of a
\* stable sort
InsertByOrder(x, s) ==
    LET n == Cardinality({j \in 1..Len(s) : SectionAt(s[j]).order <= SectionAt(x).order})
    IN  SubSeq(s, 1, n) \o <<x>> \o SubSeq(s, n + 1, Len(s))

\* variant: sorted(..., reverse=True)
RECURSIVE Sorted_reverse(_)
Sorted_reverse(s) ==
    IF s = <<>> THEN <<>>
    ELSE LET rest == Sorted_reverse(SubSeq(s, 1, Len(s) - 1))
             x    == s[Len(s)]
             n    == Cardinality({j \in 1..Len(rest) :
                                    SectionAt(rest[j]).order >= SectionAt(x).order})
         IN  SubSeq(rest, 1, n) \o <<x>> \o SubSeq(rest, n + 1, Len(rest))

\* sorted(sections, key=lambda s: s.order): ascending and stable
RECURSIVE Sorted(_)
Sorted(s) ==
    IF s = <<>> THEN <<>>
    ELSE InsertByOrder(s[Len(s)], Sorted(SubSeq(s, 1, Len(s) - 1)))

\* variant: all() in place of any()
HasToc_all(ss) == \A j \in 1..Len(ss) : SectionAt(ss[j]).name = "toc"

\* any(s.name == "toc" for s in sorted_sections)
HasToc(ss) == \E j \in 1..Len(ss) : SectionAt(ss[j]).name = "toc"

\* variant: the title is not lowercased
Anchor_nolower(title) == StrReplace(title, " ", "-")

\* section.title.lower().replace(" ", "-")
Anchor(title) == StrReplace(StrLower(title), " ", "-")

\* f"- [{section.title}](#{anchor})"
TocEntry(section) ==
    <<"-", " ", "[">> \o section.title \o <<"]", "(", "#">>
    \o Anchor(section.title) \o <<")">>

\* variant: only the required sections are listed
InToc_required(section) ==
    section.name # "toc" /\ section.name # "header" /\ section.title # <<>>
    /\ ~section.optional

\* the condition of line 461
InToc(section) ==
    section.name # "toc" /\ section.name # "header" /\ section.title # <<>>

\* variant: each entry is put in front of the list
RECURSIVE TocItems_prepend(_)
TocItems_prepend(ss) ==
    IF ss = <<>> THEN <<>>
    ELSE TocItems_prepend(Tail(ss))
         \o (IF InToc(SectionAt(ss[1])) THEN <<TocEntry(SectionAt(ss[1]))>> ELSE <<>>)

\* toc_items after the loop of lines 460-463
RECURSIVE TocItems(_)
TocItems(ss) ==
    IF ss = <<>> THEN <<>>
    ELSE (IF InToc(SectionAt(ss[1])) THEN <<TocEntry(SectionAt(ss[1]))>> ELSE <<>>)
         \o TocItems(Tail(ss))

\* variant: no except clause, the exception of a section leaves the loop
TrySection_noexcept(section, ctx) ==
    LET r == RenderSection(section.content, ctx)
    IN  [raised |-> ~r.ok, keep |-> r.ok /\ StripNonEmpty(r.out), text |-> r.out]

\* lines 469-477 for one section: [raised, keep, text].  raised: an
\* exception leaves the try statement; keep: the text is appended
TrySection(section, ctx) ==
    LET r == RenderSection(section.content, ctx)
    IN  IF ~r.ok THEN [raised |-> FALSE, keep |-> FALSE, text |-> <<>>]
        ELSE [raised |-> FALSE, keep |-> StripNonEmpty(r.out), text |-> r.out]

\* variant: the parts are separated by a blank line
JoinParts_blankline(parts) == StrJoin(<<NL, NL>>, parts)

\* "\n".join(rendered_parts)
JoinParts(parts) == StrJoin(<<NL>>, parts)

\* rendered_parts after the loop of lines 468-477 over the sections ss
RECURSIVE RenderedParts(_, _)
RenderedParts(ss, ctx) ==
    IF ss = <<>> THEN <<>>
    ELSE LET t == TrySection(SectionAt(ss[1]), ctx)
         IN  (IF t.keep THEN <<t.text>> ELSE <<>>) \o RenderedParts(Tail(ss), ctx)

\* variant: a table_of_contents of the caller is kept
TocContext_setdefault(ss, ctx) ==
    IF HasToc(ss) /\ "table_of_contents" \notin DOMAIN ctx
    THEN CtxSet(ctx, "table_of_contents", VStr(StrJoin(<<NL>>, TocItems(ss))))
    ELSE ctx

\* variant: the key is written whether or not there is a "toc" section
TocContext_always(ss, ctx) ==
    CtxSet(ctx, "table_of_contents", VStr(StrJoin(<<NL>>, TocItems(ss))))

\* the context after lines 457-464
TocContext(ss, ctx) ==
    IF HasToc(ss)
    THEN CtxSet(ctx, "table_of_contents", VStr(StrJoin(<<NL>>, TocItems(ss))))
    ELSE ctx

\* variant: the sections are rendered under the context of the caller,
\* the table of contents is stored after them
render_template_late(T, name, ctx) ==
    LET ss == Sorted(ResolveTemplate(T, name).sections)
        c  == TocContext(ss, ctx)
    IN  [v |-> JoinParts(RenderedParts(ss, ctx)), context |-> c]

\* render_template as a function of the catalog, the name and the context:
\* [v, context], the string returned and the context left behind
render_template(T, name, ctx) ==
    LET ss == Sorted(ResolveTemplate(T, name).sections)
        c  == TocContext(ss, ctx)
    IN  [v |-> JoinParts(RenderedParts(ss, c)), context |-> c]

\* [s.name for s in template.sections]
SectionNames(ss) == [j \in 1..Len(ss) |-> SectionAt(ss[j]).name]

\* variant: the names are listed in rendering order
get_section_names_sorted(T, name) ==
    IF ~get_template(T, name).some THEN <<>>
    ELSE SectionNames(Sorted(get_template(T, name).v.sections))

\* lines 482-487
get_section_names(T, name) ==
    IF ~get_template(T, name).some THEN <<>>
    ELSE SectionNames(get_template(T, name).v.sections)

\* variant: the catalog is loaded without the default template
InitialCatalog_nostandard(cs) ==
    [n \in ((DOMAIN CATALOG) \ {"standard"}) \cup {"custom"} |->
        IF n = "custom" THEN Template("custom", cs) ELSE CATALOG[n]]

\* TEMPLATES at module load: the templates of the source and the custom one
InitialCatalog(cs) ==
    [n \in (DOMAIN CATALOG) \cup {"custom"} |->
        IF n = "custom" THEN Template("custom", cs) ELSE CATALOG[n]]

Init ==
    /\ \E cs \in CustomSectionLists : TEMPLATES = InitialCatalog(cs)
    /\ objects = InitialObjects
    /\ BadgesIdle
    /\ LicensesIdle
    /\ project = NoProjectCall
    /\ run = NoRun
    /\ prev = NoPrev
    /\ section_names = NoCall
    /\ context \in Contexts
    /\ pc = "idle"
    /\ template_name = ""
    /\ template = Template("", <<>>)
    /\ sorted_sections = <<>>
    /\ idx = 1
    /\ rendered_parts = <<>>
    /\ result = NoResult
    /\ calls = 0
    /\ context0 = context
    /\ kept = <<>>
    /\ dropped = {}

\* variant: rendered_parts is a list that outlives the call
Call_keepparts(name) ==
    /\ pc \in {"idle", "done"}
    /\ calls < MaxCalls
    /\ name \in Callable(TEMPLATES)
    /\ calls' = calls + 1
    /\ template_name' = name
    /\ template' = ResolveTemplate(TEMPLATES, name)
    /\ sorted_sections' = Sorted(template'.sections)
    /\ idx' = 1
    /\ rendered_parts' = rendered_parts
    /\ result' = NoResult
    /\ context0' = context
    /\ kept' = <<>>
    /\ dropped' = {}
    /\ pc' = "toc"
    /\ prev' = IF pc = "done"
               THEN [some |-> TRUE, name |-> template_name, v |-> result.v,
                     context0 |-> IF prev.some THEN prev.context0 ELSE context0]
               ELSE NoPrev
    /\ section_names' = NoCall
    /\ UNCHANGED <<other_vars, TEMPLATES, objects, context>>

\* render_template(name, context) is called; lines 448-455
Call(name) ==
    /\ pc \in {"idle", "done"}
    /\ calls < MaxCalls
    /\ name \in Callable(TEMPLATES)
    /\ calls' = calls + 1
    /\ template_name' = name
    /\ template' = ResolveTemplate(TEMPLATES, name)
    /\ sorted_sections' = Sorted(template'.sections)
    /\ idx' = 1
    /\ rendered_parts' = <<>>
    /\ result' = NoResult
    /\ context0' = context
    /\ kept' = <<>>
    /\ dropped' = {}
    /\ pc' = "toc"
    /\ prev' = IF pc = "done"
               THEN [some |-> TRUE, name |-> template_name, v |-> result.v,
                     context0 |-> IF prev.some THEN prev.context0 ELSE context0]
               ELSE NoPrev
    /\ section_names' = NoCall
    /\ UNCHANGED <<other_vars, TEMPLATES, objects, context>>

\* variant: the table is not in the context while the sections are rendered
GenerateToc_unstored ==
    /\ pc = "toc"
    /\ pc' = "render"
    /\ UNCHANGED <<other_vars, TEMPLATES, objects, context, template_name, template,
                   sorted_sections, idx, rendered_parts, result, calls, context0,
                   kept, dropped, prev, section_names>>

\* variant: the table lists only the sections that are going to be in the
\* document
GenerateToc_rendered ==
    /\ pc = "toc"
    /\ LET live == SelectSeq(sorted_sections,
                             LAMBDA id : TrySection(SectionAt(id), context).keep)
       IN  context' = IF HasToc(sorted_sections)
                      THEN CtxSet(context, "table_of_contents",
                                  VStr(StrJoin(<<NL>>, TocItems(live))))
                      ELSE context
    /\ pc' = "render"
    /\ UNCHANGED <<other_vars, TEMPLATES, objects, template_name, template, sorted_sections,
                   idx, rendered_parts, result, calls, context0, kept, dropped,
                   prev, section_names>>

\* lines 457-464: the table of contents is stored in the context
GenerateToc ==
    /\ pc = "toc"
    /\ context' = TocContext(sorted_sections, context)
    /\ pc' = "render"
    /\ UNCHANGED <<other_vars, TEMPLATES, objects, template_name, template, sorted_sections,
                   idx, rendered_parts, result, calls, context0, kept, dropped,
                   prev, section_names>>

\* variant: the try statement encloses the loop, a section that raises ends it
RenderNext_break ==
    /\ pc = "render"
    /\ idx <= Len(sorted_sections)
    /\ LET section == SectionAt(sorted_sections[idx])
           t == TrySection(section, context)
           failed == ~RenderSection(section.content, context).ok
       IN  /\ pc' = "render"
           /\ idx' = IF failed THEN Len(sorted_sections) + 1 ELSE idx + 1
           /\ rendered_parts' = IF t.keep THEN Append(rendered_parts, t.text)
                                ELSE rendered_parts
           /\ kept' = IF t.keep THEN Append(kept, idx) ELSE kept
           /\ dropped' = IF failed THEN dropped \cup {idx} ELSE dropped
    /\ UNCHANGED <<other_vars, TEMPLATES, objects, context, template_name, template,
                   sorted_sections, result, calls, context0, prev, section_names>>

\* lines 468-477: one iteration of the render loop
RenderNext ==
    /\ pc = "render"
    /\ idx <= Len(sorted_sections)
    /\ LET section == SectionAt(sorted_sections[idx])
           t == TrySection(section, context)
           failed == ~RenderSection(section.content, context).ok
       IN  IF t.raised
           THEN /\ pc' = "raised"
                /\ UNCHANGED <<idx, rendered_parts, kept, dropped>>
           ELSE /\ pc' = "render"
                /\ idx' = idx + 1
                /\ rendered_parts' = IF t.keep THEN Append(rendered_parts, t.text)
                                     ELSE rendered_parts
                /\ kept' = IF t.keep THEN Append(kept, idx) ELSE kept
                /\ dropped' = IF failed THEN dropped \cup {idx} ELSE dropped
    /\ UNCHANGED <<other_vars, TEMPLATES, objects, context, template_name, template,
                   sorted_sections, result, calls, context0, prev, section_names>>

\* line 479
Return ==
    /\ pc = "render"
    /\ idx > Len(sorted_sections)
    /\ result' = [some |-> TRUE, v |-> JoinParts(rendered_parts)]
    /\ pc' = "done"
    /\ UNCHANGED <<other_vars, TEMPLATES, objects, context, template_name, template,
                   sorted_sections, idx, rendered_parts, calls, context0, kept,
                   dropped, prev, section_names>>

\* variant: looking up a name that is not in the catalog adds it
GetSectionNames_setdefault(name) ==
    /\ pc = "idle"
    /\ name \in Callable(TEMPLATES)
    /\ section_names' = [some |-> TRUE, name |-> name,
                         v |-> get_section_names(TEMPLATES, name)]
    /\ TEMPLATES' = [n \in (DOMAIN TEMPLATES) \cup {name} |->
                        IF n \in DOMAIN TEMPLATES THEN TEMPLATES[n]
                        ELSE Template(name, <<>>)]
    /\ UNCHANGED <<other_vars, objects, context, pc, template_name, template,
                   sorted_sections, idx, rendered_parts, result, calls, context0,
                   kept, dropped, prev>>

\* get_section_names(name) is called (by the `sections` command of main.py,
\* which renders nothing before it)
GetSectionNames(name) ==
    /\ pc = "idle"
    /\ name \in Callable(TEMPLATES)
    /\ section_names' = [some |-> TRUE, name |-> name,
                         v |-> get_section_names(TEMPLATES, name)]
    /\ UNCHANGED <<other_vars, TEMPLATES, objects, context, pc, template_name, template,
                   sorted_sections, idx, rendered_parts, result, calls, context0,
                   kept, dropped, prev>>

\* The caller is done with the string returned and with the context
\* object, and builds another context (main.py builds one per run of
\* `generate`); the locals of the finished call are gone.
NewContext(c) ==
    /\ pc = "done"
    /\ calls < MaxCalls
    /\ context' = c
    /\ context0' = c
    /\ pc' = "idle"
    /\ template_name' = ""
    /\ template' = Template("", <<>>)
    /\ sorted_sections' = <<>>
    /\ idx' = 1
    /\ rendered_parts' = <<>>
    /\ result' = NoResult
    /\ kept' = <<>>
    /\ dropped' = {}
    /\ prev' = NoPrev
    /\ section_names' = NoCall
    /\ UNCHANGED <<other_vars, TEMPLATES, objects, calls>>

Next ==
    \/ \E name \in TemplateNames : Call(name)
    \/ GenerateToc
    \/ RenderNext
    \/ Return
    \/ \E name \in TemplateNames : GetSectionNames(name)
    \/ \E c \in Contexts : NewContext(c)

Spec == Init /\ [][Next]_vars

\* ------------------------------------------------------- generate_badge --

\* templates.py is loaded and idle
TemplatesIdle ==
    /\ TEMPLATES = InitialCatalog(<<>>)
    /\ objects = InitialObjects
    /\ context = EmptyContext
    /\ pc = "idle"
    /\ template_name = ""
    /\ template = Template("", <<>>)
    /\ sorted_sections = <<>>
    /\ idx = 1
    /\ rendered_parts = <<>>
    /\ result = NoResult
    /\ calls = 0
    /\ context0 = EmptyContext
    /\ kept = <<>>
    /\ dropped = {}
    /\ prev = NoPrev
    /\ section_names = NoCall

BadgeInit ==
    /\ TemplatesIdle
    /\ LicensesIdle
    /\ project = NoProjectCall
    /\ run = NoRun
    /\ BadgesIdle

\* variant: the KeyError of str.format is not caught
GenerateBadge_noexcept(badge_type, kwargs) ==
    /\ BadgesIdle
    /\ badge' = [some |-> TRUE, badge_type |-> badge_type, kwargs |-> kwargs,
                 ret |-> IF badge_type \in DOMAIN BADGE_TEMPLATES
                            /\ generate_badge(badge_type, kwargs).none
                         THEN BadgeRaised
                         ELSE generate_badge(badge_type, kwargs)]
    /\ UNCHANGED <<badges, template_vars, license_vars, project, run>>

\* generate_badge(badge_type, **kwargs) is called
GenerateBadge(badge_type, kwargs) ==
    /\ BadgesIdle
    /\ badge' = [some |-> TRUE, badge_type |-> badge_type, kwargs |-> kwargs,
                 ret |-> generate_badge(badge_type, kwargs)]
    /\ UNCHANGED <<badges, template_vars, license_vars, project, run>>

\* generate_badges_from_preset(preset, **kwargs) is called
GenerateBadgesFromPreset(preset, kwargs) ==
    /\ BadgesIdle
    /\ badges' = [some |-> TRUE, preset |-> preset, kwargs |-> kwargs,
                  ret |-> generate_badges_from_preset(preset, kwargs)]
    /\ UNCHANGED <<badge, template_vars, license_vars, project, run>>

\* the caller is done with what the call gave
DiscardBadge ==
    /\ ~BadgesIdle
    /\ badge' = NoBadgeCall
    /\ badges' = NoPresetCall
    /\ UNCHANGED <<template_vars, license_vars, project, run>>

BadgeNext ==
    \/ /\ BadgesIdle
       /\ \E badge_type \in BadgeTypes : \E kwargs \in BadgeKwargs :
             GenerateBadge(badge_type, kwargs)
    \/ /\ BadgesIdle
       /\ \E preset \in Presets : \E kwargs \in BadgeKwargs :
             GenerateBadgesFromPreset(preset, kwargs)
    \/ DiscardBadge

BadgeSpec == BadgeInit /\ [][BadgeNext]_vars

\* ------------------------------------------------------- licenses.py --

\* variant: save_license_file without the test of `text`; f.write(None)
\* raises inside the try, after open has created or truncated the file
save_license_file_nocheck(fs, license_id, author, output_path, year, now, fault, written) ==
    LET g == generate_license_text(license_id, author, year, now)
        text == g.ret
    IN  IF g.raised
        THEN [text |-> text, fault |-> "none", raised |-> TRUE, ret |-> FALSE,
              files |-> fs]
        ELSE IF fault = "open"
        THEN [text |-> text, fault |-> fault, raised |-> FALSE, ret |-> FALSE,
              files |-> fs]
        ELSE IF text.none
        THEN [text |-> text, fault |-> "none", raised |-> FALSE, ret |-> FALSE,
              files |-> [fs EXCEPT ![output_path] = File(<<>>)]]
        ELSE IF fault = "write"
        THEN [text |-> text, fault |-> fault, raised |-> FALSE, ret |-> FALSE,
              files |-> [fs EXCEPT ![output_path] =
                                      File(SubSeq(text.s, 1, written))]]
        ELSE [text |-> text, fault |-> fault, raised |-> FALSE, ret |-> TRUE,
              files |-> [fs EXCEPT ![output_path] = File(text.s)]]

\* lines 453-480 on the file system fs: the text generate_license_text
\* gave, the failure met, whether the call raised, what it returned and the
\* file system it leaves
save_license_file(fs, license_id, author, output_path, year, now, fault, written) ==
    LET g == generate_license_text(license_id, author, year, now)
        text == g.ret
    IN  IF g.raised
        THEN [text |-> text, fault |-> "none", raised |-> TRUE, ret |-> FALSE,
              files |-> fs]
        ELSE IF text.none \/ text.s = <<>>
        THEN [text |-> text, fault |-> "none", raised |-> FALSE, ret |-> FALSE,
              files |-> fs]
        ELSE IF fault = "open"
        THEN [text |-> text, fault |-> fault, raised |-> FALSE, ret |-> FALSE,
              files |-> fs]
        ELSE IF fault = "write"
        THEN [text |-> text, fault |-> fault, raised |-> FALSE, ret |-> FALSE,
              files |-> [fs EXCEPT ![output_path] =
                                      File(SubSeq(text.s, 1, written))]]
        ELSE [text |-> text, fault |-> fault, raised |-> FALSE, ret |-> TRUE,
              files |-> [fs EXCEPT ![output_path] = File(text.s)]]

\* the other modules are loaded and idle
LicenseInit ==
    /\ TemplatesIdle
    /\ BadgesIdle
    /\ project = NoProjectCall
    /\ run = NoRun
    /\ files \in InitialFiles
    /\ lic = NoLicenseCall
    /\ license_info = NoInfoCall
    /\ badge_name = NoNameCall

\* save_license_file(license_id, author, output_path, year) is called
SaveLicenseFile(license_id, author, output_path, year, now, fault, written) ==
    /\ NoLicensePending
    /\ LET r == save_license_file(files, license_id, author, output_path, year,
                                  now, fault, written)
       IN  /\ files' = r.files
           /\ lic' = [some |-> TRUE, license_id |-> license_id, author |-> author,
                      output_path |-> output_path, year |-> year,
                      now |-> IF year.none THEN now ELSE 0, text |-> r.text,
                      fault |-> r.fault, raised |-> r.raised, ret |-> r.ret,
                      files0 |-> files]
    /\ UNCHANGED <<license_info, badge_name, template_vars, badge_vars, project, run>>

\* get_license_info(license_id) is called
GetLicenseInfo(license_id) ==
    /\ NoLicensePending
    /\ license_info' = [some |-> TRUE, license_id |-> license_id,
                        ret |-> get_license_info(license_id)]
    /\ UNCHANGED <<files, lic, badge_name, template_vars, badge_vars, project, run>>

\* get_license_badge_name(license_id) is called
GetLicenseBadgeName(license_id) ==
    /\ NoLicensePending
    /\ badge_name' = [some |-> TRUE, license_id |-> license_id,
                      ret |-> get_license_badge_name(license_id)]
    /\ UNCHANGED <<files, lic, license_info, template_vars, badge_vars, project, run>>

\* the caller is done with what the call gave
DiscardLicense ==
    /\ ~NoLicensePending
    /\ lic' = NoLicenseCall
    /\ license_info' = NoInfoCall
    /\ badge_name' = NoNameCall
    /\ UNCHANGED <<files, template_vars, badge_vars, project, run>>

LicenseNext ==
    \/ /\ NoLicensePending
       /\ \E license_id \in SaveIds : \E author \in Authors :
          \E output_path \in Paths : \E year \in Years : \E now \in NowYears :
          \E fault \in Faults : \E written \in Written :
             SaveLicenseFile(license_id, author, output_path, year, now, fault,
                             written)
    \/ NoLicensePending /\ \E license_id \in LookupIds : GetLicenseInfo(license_id)
    \/ NoLicensePending /\ \E license_id \in LookupIds : GetLicenseBadgeName(license_id)
    \/ DiscardLicense

LicenseSpec == LicenseInit /\ [][LicenseNext]_vars

\* ---------------------------------------------------- git_utils.py --

ProjectInit ==
    /\ TemplatesIdle
    /\ LicensesIdle
    /\ BadgesIdle
    /\ project = NoProjectCall
    /\ run = NoRun

\* detect_project_type() is called in the directory dir
DetectProjectType(dir) ==
    /\ ~project.some
    /\ project' = [some |-> TRUE, dir |-> dir, ret |-> detect_project_type(dir)]
    /\ UNCHANGED <<template_vars, license_vars, badge_vars, run>>

\* the caller is done with what detect_project_type gave
DiscardProject ==
    /\ project.some
    /\ project' = NoProjectCall
    /\ UNCHANGED <<template_vars, license_vars, badge_vars, run>>

ProjectNext ==
    \/ ~project.some /\ \E dir \in Dirs : DetectProjectType(dir)
    \/ DiscardProject

ProjectSpec == ProjectInit /\ [][ProjectNext]_vars

\* ---------------------------------------------------------- main.py --

\* render_template as main.py calls it: on the catalog TEMPLATES, with
\* the context object of the command
RenderReadme(name, ctx) == render_template(TEMPLATES, name, ctx)

\* the first n atoms of a text that is being written
Partial(text, n) == SubSeq(text, 1, IF n < Len(text) THEN n ELSE Len(text))

GenerateInit ==
    /\ TemplatesIdle
    /\ BadgesIdle
    /\ project = NoProjectCall
    /\ lic = NoLicenseCall
    /\ license_info = NoInfoCall
    /\ badge_name = NoNameCall
    /\ files \in InitialFiles
    /\ \E readme \in {Absent, File(OldReadme)} :
       \E config \in {NoConfigFile, ConfigFile(Ctx_config)} :
          run = Run(readme, config, files)

\* lines 343-344: the template and the context are made, the README is
\* rendered for the preview
Generate(template_, ctx, preview) ==
    /\ run.pc = "idle"
    /\ LET r == RenderReadme(template_, ctx)
       IN  run' = [run EXCEPT !.pc = IF preview THEN "confirm" ELSE "save",
                              !.template = template_,
                              !.context = r.context,
                              !.context0 = ctx,
                              !.preview = preview,
                              !.readme_content = r.v]
    /\ UNCHANGED <<template_vars, license_vars, badge_vars, project>>

\* variant: the answer to "Save this README?" is not looked at
ConfirmSave_ignore(answer) ==
    /\ run.pc = "confirm"
    /\ run' = [run EXCEPT !.pc = "save", !.cancelled = ~answer]
    /\ UNCHANGED <<template_vars, license_vars, badge_vars, project>>

\* lines 347-351: the preview is shown and the user answers
\* "Save this README?"
ConfirmSave(answer) ==
    /\ run.pc = "confirm"
    /\ run' = [run EXCEPT !.pc = IF answer THEN "save" ELSE "end",
                          !.cancelled = ~answer]
    /\ UNCHANGED <<template_vars, license_vars, badge_vars, project>>

\* line 354, generate_readme (lines 242-260): the README is rendered
\* again and written; an exception of open or write ends the command
GenerateReadme(fault, written) ==
    /\ run.pc = "save"
    /\ LET rendered == RenderReadme(run.template, run.context)
       IN  run' = [run EXCEPT
                     !.context = rendered.context,
                     !.readme = CASE fault = "none"  -> File(rendered.v)
                                  [] fault = "open"  -> @
                                  [] fault = "write" -> File(Partial(rendered.v, written)),
                     !.log = IF fault = "none" THEN Append(@, "readme") ELSE @,
                     !.pc = IF fault = "none" THEN "config" ELSE "raised"]
    /\ UNCHANGED <<template_vars, license_vars, badge_vars, project>>

\* lines 358-359, save_config (lines 269-277): the user answers "Save
\* configuration for future use?"
SaveConfig(answer, fault) ==
    /\ run.pc = "config"
    /\ run' = IF ~answer THEN [run EXCEPT !.pc = "license"]
              ELSE [run EXCEPT
                      !.config = CASE fault = "none"  -> ConfigFile(Serializable(run.context))
                                   [] fault = "open"  -> @
                                   [] fault = "write" -> BrokenConfigFile,
                      !.log = IF fault = "none" THEN Append(@, "config") ELSE @,
                      !.pc = IF fault = "none" THEN "license" ELSE "raised"]
    /\ UNCHANGED <<template_vars, license_vars, badge_vars, project>>

\* lines 362-368: the user answers "Generate LICENSE file?"
GenerateLicense(answer, now, fault, written) ==
    /\ run.pc = "license"
    /\ LET license == CtxGet(run.context, "license", Undef)
           author  == CtxGet(run.context, "author_name",
                             CtxGet(run.context, "github_username", VStr(<<>>)))
       IN  IF ~(Truthy(license) /\ license # VStr(<<"N", "o", "n", "e">>)) \/ ~answer
           THEN /\ run' = [run EXCEPT !.pc = "end"]
                /\ UNCHANGED files
           ELSE IF license.t # "str"
           THEN /\ run' = [run EXCEPT !.pc = "raised"]
                /\ UNCHANGED files
           ELSE LET r == save_license_file(files, license.s, ToStr(author),
                                           "LICENSE", NoneInt, now, fault, written)
                IN  /\ files' = r.files
                    /\ run' = [run EXCEPT !.log = Append(@, "license"),
                                          !.pc = IF r.raised THEN "raised" ELSE "end"]
    /\ UNCHANGED <<template_vars, lic, license_info, badge_name, badge_vars, project>>

GenerateNext ==
    \/ \E template_ \in TemplateNames : \E ctx \in Contexts :
       \E preview \in BOOLEAN : Generate(template_, ctx, preview)
    \/ \E answer \in BOOLEAN : ConfirmSave(answer)
    \/ \E fault \in Faults : \E written \in Written : GenerateReadme(fault, written)
    \/ \E answer \in BOOLEAN : \E fault \in Faults : SaveConfig(answer, fault)
    \/ \E answer \in BOOLEAN : \E now \in NowYears : \E fault \in Faults :
       \E written \in Written : GenerateLicense(answer, now, fault, written)

GenerateSpec == GenerateInit /\ [][GenerateNext]_vars

\* ------------------------------------------------------------- claims --

\* a call has returned
Returned == pc = "done"

\* the positions of sorted_sections
Positions == 1..Len(sorted_sections)

\* the section at a position of sorted_sections
SectionOf(j) == SectionAt(sorted_sections[j])

\* the position holding the section named "toc" (when there is one)
TocPosition == CHOOSE j \in Positions : SectionOf(j).name = "toc"

\* C1: a call with a name that is not a key of TEMPLATES returns the string,
\* and leaves the context, that the call with "standard" on the same
\* context does.
C1_UnknownNameIsStandard ==
    (Returned /\ template_name \notin DOMAIN TEMPLATES)
    => /\ result.some
       /\ result.v = render_template(TEMPLATES, "standard", context0).v
       /\ context = render_template(TEMPLATES, "standard", context0).context

C1_Witness ==
    /\ Returned
    /\ template_name \notin DOMAIN TEMPLATES
    /\ result.v # <<>>
    /\ context # context0

\* the statements a call in progress has left to execute, at most
Rank ==
    CASE pc = "toc"    -> Len(sorted_sections) + 3
      [] pc = "render" -> Len(sorted_sections) + 2 - idx
      [] OTHER         -> 0

\* C2: render_template never raises, whichever sections fail: no exception
\* leaves a try statement, a call in progress is at a statement it can
\* execute and every statement it executes brings it nearer to its return,
\* and a call that is over has returned a string.
C2_NeverRaises ==
    /\ [](/\ pc \in {"idle", "toc", "render", "done"}
          /\ pc = "render" => idx \in 1..(Len(sorted_sections) + 1)
          /\ Returned => result.some)
    /\ [][(pc \in {"toc", "render"}) => (Rank' < Rank /\ Rank' >= 0)]_vars

\* every section of the template raised and the call returned ""
C2_Witness ==
    /\ Returned
    /\ sorted_sections # <<>>
    /\ dropped = Positions
    /\ result = [some |-> TRUE, v |-> <<>>]

\* the sections of ss at the positions not in drop
RECURSIVE Without(_, _, _)
Without(ss, drop, j) ==
    IF j > Len(ss) THEN <<>>
    ELSE (IF j \in drop THEN <<>> ELSE <<ss[j]>>) \o Without(ss, drop, j + 1)

\* C3: the sections that raise contribute nothing, and the parts collected
\* are those the same loop collects over the other sections alone, so no
\* section after a failing one is skipped.
C3_FaultIsolation ==
    Returned =>
      LET others == RenderedParts(Without(sorted_sections, dropped, 1), context)
      IN  /\ \A j \in dropped : \A k \in 1..Len(kept) : kept[k] # j
          /\ rendered_parts = others
          /\ result.v = JoinParts(others)

\* a section raised and a section sorted after it is in the output
C3_Witness ==
    /\ Returned
    /\ \E j \in dropped : \E k \in 1..Len(kept) : kept[k] > j

\* the text is empty or whitespace only
Blank(text) == \A i \in 1..Len(text) : text[i] = " " \/ text[i] = "\n" \/ text[i] = "\t"

\* what the section at position j renders to under the context of the call
RenderAt(j) == RenderSection(SectionOf(j).content, context)

\* the position of sorted_sections is the source of some part of the output
Emitted(j) == \E k \in 1..Len(kept) : kept[k] = j

\* C4: a section that renders to empty or whitespace-only text is not in
\* the output; a section that renders to text with a non-whitespace
\* character is, with its text as rendered.
C4_EmptinessGating ==
    Returned =>
      \A j \in Positions :
        LET r == RenderAt(j)
        IN  r.ok =>
              IF Blank(r.out)
              THEN ~Emitted(j)
              ELSE \E k \in 1..Len(kept) :
                      kept[k] = j /\ rendered_parts[k] = r.out

\* one section rendered to whitespace and was left out, and a part of the
\* output ends in whitespace
C4_Witness ==
    /\ Returned
    /\ \E j \in Positions :
          RenderAt(j).ok /\ RenderAt(j).out # <<>> /\ Blank(RenderAt(j).out) /\ ~Emitted(j)
    /\ \E k \in 1..Len(rendered_parts) :
          rendered_parts[k][Len(rendered_parts[k])] = "\n"

\* the place of a section in template.sections
DeclaredAt(id) == CHOOSE j \in 1..Len(template.sections) : template.sections[j] = id

\* C5: the sections are processed in ascending `order`, sections of equal
\* `order` in the order of template.sections, and the parts of the output
\* follow the same sequence.
C5_SortedStable ==
    (pc \in {"toc", "render", "done"}) =>
      /\ Len(sorted_sections) = Len(template.sections)
      /\ \A j \in 1..Len(template.sections) :
            \E a \in Positions : sorted_sections[a] = template.sections[j]
      /\ \A a, b \in Positions :
            a < b =>
              /\ SectionOf(a).order <= SectionOf(b).order
              /\ SectionOf(a).order = SectionOf(b).order
                    => DeclaredAt(sorted_sections[a]) < DeclaredAt(sorted_sections[b])
      /\ \A k, m \in 1..Len(kept) : k < m => kept[k] < kept[m]
      /\ Len(rendered_parts) = Len(kept)

\* sorting changed the declared order, and two sections of equal `order`
\* are both in the output
C5_Witness ==
    /\ Returned
    /\ template.sections # sorted_sections
    /\ \E k, m \in 1..Len(kept) :
          k < m /\ SectionOf(kept[k]).order = SectionOf(kept[m]).order

\* the texts of the sections from position j on that render without error
\* to text that is not blank
RECURSIVE SurvivingTexts(_)
SurvivingTexts(j) ==
    IF j > Len(sorted_sections) THEN <<>>
    ELSE LET r == RenderAt(j)
         IN  (IF r.ok /\ ~Blank(r.out) THEN <<r.out>> ELSE <<>>)
             \o SurvivingTexts(j + 1)

\* the first n texts, a newline between each two
RECURSIVE Glue(_, _)
Glue(texts, n) ==
    IF n = 0 THEN <<>>
    ELSE IF n = 1 THEN texts[1]
    ELSE Glue(texts, n - 1) \o <<"\n">> \o texts[n]

\* C6: the string returned is the texts of the surviving sections in sorted
\* order with one newline between each two, and nothing else.
C6_JoinedByNewline ==
    Returned =>
      LET texts == SurvivingTexts(1)
      IN  /\ result.v = Glue(texts, Len(texts))
          /\ Len(texts) = 0 => result.v = <<>>
          /\ Len(texts) = 1 => result.v = texts[1]

\* several sections survive and some do not
C6_Witness ==
    /\ Returned
    /\ Len(rendered_parts) >= 2
    /\ Len(rendered_parts) < Len(sorted_sections)
    /\ result.v # <<>>

\* the template of the call has a section named "toc"
HasTocSection == \E j \in Positions : SectionOf(j).name = "toc"

\* the anchor of a title: a hyphen for each space, the small letter for
\* each capital, every other character as it is
Slug(title) ==
    [i \in 1..Len(title) |->
        IF title[i] = " " THEN "-"
        ELSE IF title[i] \in DOMAIN LowerOf THEN LowerOf[title[i]]
        ELSE title[i]]

\* - [Title](#anchor)
EntryFor(title) ==
    <<"-", " ", "[">> \o title \o <<"]", "(", "#">> \o Slug(title) \o <<")">>

\* the section at position j has an entry in the table of contents
Listed(j) ==
    /\ SectionOf(j).name # "toc"
    /\ SectionOf(j).name # "header"
    /\ SectionOf(j).title # <<>>

\* the entries of the sections from position j on
RECURSIVE ExpectedEntries(_)
ExpectedEntries(j) ==
    IF j > Len(sorted_sections) THEN <<>>
    ELSE (IF Listed(j) THEN <<EntryFor(SectionOf(j).title)>> ELSE <<>>)
         \o ExpectedEntries(j + 1)

\* the table of contents of the template of the call
ExpectedToc == Glue(ExpectedEntries(1), Len(ExpectedEntries(1)))

\* C7: with a "toc" section in the template, table_of_contents holds (when
\* the loop over the sections starts, and when the call returns) one
\* entry - [Title](#anchor) for each section that is neither "toc" nor
\* "header" and has a title, joined by newlines; the anchor is the title in
\* lower case with hyphens for spaces ("API Reference" gives
\* "api-reference").
C7_TocValue ==
    /\ ((Returned \/ (pc = "render" /\ idx = 1)) /\ HasTocSection) =>
          /\ "table_of_contents" \in DOMAIN context
          /\ context["table_of_contents"] = VStr(ExpectedToc)
    /\ Anchor(<<"A","P","I"," ","R","e","f","e","r","e","n","c","e">>)
          = <<"a","p","i","-","r","e","f","e","r","e","n","c","e">>

\* a title with a capital and a space has its entry in the table, and a
\* section named "header" that has a title has none
C7_Witness ==
    /\ Returned
    /\ HasTocSection
    /\ \E j \in Positions :
          /\ Listed(j)
          /\ \E i \in 1..Len(SectionOf(j).title) : SectionOf(j).title[i] = " "
          /\ Slug(SectionOf(j).title) # SectionOf(j).title
    /\ \E j \in Positions : SectionOf(j).name = "header" /\ SectionOf(j).title # <<>>

\* text.split("\n") from character i on
RECURSIVE SplitFrom(_, _)
SplitFrom(text, i) ==
    LET breaks == {n \in i..Len(text) : text[n] = "\n"}
    IN  IF breaks = {} THEN <<SubSeq(text, i, Len(text))>>
        ELSE LET n == CHOOSE b \in breaks : \A c \in breaks : b <= c
             IN  <<SubSeq(text, i, n - 1)>> \o SplitFrom(text, n + 1)

\* text.split("\n")
SplitLines(text) == SplitFrom(text, 1)

\* the entries found in the table of contents stored in the context
TocLines ==
    IF "table_of_contents" \in DOMAIN context /\ context["table_of_contents"].s # <<>>
    THEN SplitLines(context["table_of_contents"].s)
    ELSE <<>>

\* the place in the output of the section at position j
PartOf(j) == CHOOSE k \in 1..Len(kept) : kept[k] = j

\* the entry each section from position j on would have in the table
RECURSIVE EntriesFrom(_)
EntriesFrom(j) ==
    IF j > Len(sorted_sections) THEN <<>>
    ELSE <<EntryFor(SectionOf(j).title)>> \o EntriesFrom(j + 1)

\* C8: with a "toc" section in the template, every entry of the table is
\* the entry of a section that is neither "toc" nor "header", no entry is
\* that of the "toc" or "header" section, and two entries whose sections
\* are both in the document come in the order of these sections in the
\* document.
C8_TocOrder ==
    (Returned /\ HasTocSection) =>
      LET lines  == TocLines
          entry  == EntriesFrom(1)
          listed == {j \in Positions : Listed(j)}
      IN  /\ \A a \in 1..Len(lines) : \E j \in listed : entry[j] = lines[a]
          /\ \A j \in Positions :
                SectionOf(j).name \in {"toc", "header"}
                    => \A a \in 1..Len(lines) : lines[a] # entry[j]
          /\ \A ja, jb \in listed :
                (Emitted(ja) /\ Emitted(jb)) =>
                   \A a, b \in 1..Len(lines) :
                      (a < b /\ lines[a] = entry[ja] /\ lines[b] = entry[jb])
                         => PartOf(ja) < PartOf(jb)

\* a template whose declaration order is not its sorted order, with
\* several entries whose sections are in the document
C8_Witness ==
    /\ Returned
    /\ HasTocSection
    /\ template.sections # sorted_sections
    /\ \E ja, jb \in Positions :
          ja # jb /\ Listed(ja) /\ Listed(jb) /\ Emitted(ja) /\ Emitted(jb)
    /\ \E j \in Positions : SectionOf(j).name = "header" /\ Emitted(j)

\* text ends with sub
EndsWith(text, sub) ==
    /\ Len(sub) <= Len(text)
    /\ SubSeq(text, Len(text) - Len(sub) + 1, Len(text)) = sub

\* sub occurs in text
Contains(text, sub) ==
    \E i \in 0..(Len(text) - Len(sub)) : SubSeq(text, i + 1, i + Len(sub)) = sub

\* C9: with a "toc" section in the template, the context holds the table
\* of contents from before the first section is rendered; every part of
\* the output, also that of a section sorted ahead of "toc", is the text
\* rendered with the table in the context, and the text of the catalog's
\* "toc" section contains the whole table (at its end).
C9_TocBeforeRendering ==
    /\ (pc = "render" /\ HasTocSection) => "table_of_contents" \in DOMAIN context
    /\ ((Returned \/ (pc = "render" /\ idx = 1)) /\ HasTocSection) =>
          LET table == ExpectedToc
              with  == CtxSet(context0, "table_of_contents", VStr(table))
          IN  /\ context = with
              /\ \A k \in 1..Len(kept) :
                    /\ rendered_parts[k]
                          = RenderSection(SectionOf(kept[k]).content, with).out
                    /\ sorted_sections[kept[k]] = "toc"
                          => EndsWith(rendered_parts[k], table)
              /\ (Returned /\ sorted_sections[TocPosition] = "toc")
                    => Emitted(TocPosition)

\* a section sorted ahead of "toc" has the table in its text
C9_Witness ==
    /\ Returned
    /\ HasTocSection
    /\ ExpectedToc # <<>>
    /\ \E k \in 1..Len(kept) :
          /\ kept[k] < TocPosition
          /\ SectionOf(kept[k]).name = "intro"
          /\ Contains(rendered_parts[k], ExpectedToc)

\* C10: a call changes no key of the context but table_of_contents, and
\* changes nothing at all when its template has no "toc" section.
C10_OnlyTocKeyChanges ==
    (pc # "idle") =>
      /\ (DOMAIN context) \ {"table_of_contents"} = (DOMAIN context0) \ {"table_of_contents"}
      /\ \A k \in (DOMAIN context0) \ {"table_of_contents"} : context[k] = context0[k]
      /\ ~HasTocSection => context = context0

\* a template without "toc" was rendered, once with a table_of_contents
\* supplied by the caller
C10_Witness ==
    /\ Returned
    /\ ~HasTocSection
    /\ rendered_parts # <<>>
    /\ "table_of_contents" \in DOMAIN context0
    /\ DOMAIN context0 # {"table_of_contents"}

\* C11: a second call with the same name on the same context object (the
\* context the first call left behind, with the table_of_contents it
\* stored) returns the string the first call returned and leaves the
\* context as the first call left it.
C11_Idempotent ==
    (Returned /\ prev.some /\ prev.name = template_name) =>
      /\ result.v = prev.v
      /\ context = context0

\* the second call found the table stored by the first and returned text
C11_Witness ==
    /\ Returned
    /\ calls >= 2
    /\ prev.some
    /\ prev.name = template_name
    /\ HasTocSection
    /\ "table_of_contents" \in DOMAIN context0
    /\ context0["table_of_contents"] = VStr(ExpectedToc)
    /\ ExpectedToc # <<>>
    /\ result.v # <<>>

\* C12: get_section_names returns, for a name in the catalog, the name of
\* each section of the template at the place the template declares it,
\* and the empty list for a name that is not in the catalog (not the
\* names of the default template).
C12_SectionNamesDeclared ==
    section_names.some =>
      LET n == section_names.name
          v == section_names.v
      IN  IF n \in DOMAIN TEMPLATES
          THEN /\ Len(v) = Len(TEMPLATES[n].sections)
               /\ \A j \in 1..Len(v) : v[j] = SectionAt(TEMPLATES[n].sections[j]).name
          ELSE /\ v = <<>>
               /\ TEMPLATES["standard"].sections # <<>>

\* the names of a template whose declaration order is not its sorted order
C12_Witness ==
    /\ section_names.some
    /\ section_names.name \in DOMAIN TEMPLATES
    /\ Len(section_names.v) >= 2
    /\ Sorted(TEMPLATES[section_names.name].sections)
          # TEMPLATES[section_names.name].sections

\* C13: no step of render_template or get_section_names changes TEMPLATES
\* or a TemplateSection object, the templates and sections of the source
\* are as loaded in every state, and what a call returns and leaves in its
\* context is a function of the catalog, the name and the context it was
\* given, whatever calls came before.
C13_CatalogUnchanged ==
    /\ [](/\ objects = InitialObjects
          /\ \A n \in DOMAIN CATALOG : n \in DOMAIN TEMPLATES /\ TEMPLATES[n] = CATALOG[n]
          /\ Returned =>
                LET alone == render_template(TEMPLATES, template_name, context0)
                IN  result.v = alone.v /\ context = alone.context)
    /\ [][TEMPLATES' = TEMPLATES /\ objects' = objects]_vars

\* a call on a fresh context object, made after a call on another context
\* object and a call of get_section_names
C13_Witness ==
    /\ Returned
    /\ calls >= 2
    /\ ~prev.some
    /\ result.v # <<>>
    /\ template.sections # sorted_sections

\* the catalog in which the section declared at place j of template n is
\* replaced by its twin (the same section with the other `optional` value)
TwinAt(T, n, j) == [T EXCEPT ![n].sections[j] = TwinOf(@)]

\* the catalog in which every section of template n is replaced by its twin
TwinAll(T, n) ==
    [T EXCEPT ![n].sections = [j \in 1..Len(T[n].sections) |-> TwinOf(T[n].sections[j])]]

\* C14: the call returns the string, and leaves the context, it would
\* with the `optional` value of any one section, or of all sections, of
\* its template changed; a required section that renders to whitespace is
\* left out and an optional section that renders to other text is in the
\* output.
C14_OptionalIgnored ==
    Returned =>
      LET n    == template.name
          here == [v |-> result.v, context |-> context]
      IN  /\ \A j \in 1..Len(template.sections) :
                render_template(TwinAt(TEMPLATES, n, j), n, context0) = here
          /\ render_template(TwinAll(TEMPLATES, n), n, context0) = here
          /\ \A j \in Positions :
                LET r == RenderAt(j)
                IN  /\ (r.ok /\ ~SectionOf(j).optional /\ Blank(r.out)) => ~Emitted(j)
                    /\ (r.ok /\ SectionOf(j).optional /\ ~Blank(r.out)) => Emitted(j)

\* a required section was left out as blank, and an optional one with a
\* title is in the output and in the table of contents
C14_Witness ==
    /\ Returned
    /\ HasTocSection
    /\ \E j \in Positions :
          /\ ~SectionOf(j).optional
          /\ RenderAt(j).ok /\ Blank(RenderAt(j).out) /\ ~Emitted(j)
    /\ \E j \in Positions :
          SectionOf(j).optional /\ Listed(j) /\ Emitted(j)

\* the context without the keys K
Remove(ctx, K) == [k \in (DOMAIN ctx) \ K |-> ctx[k]]

\* What the content reduces to when only the keys in `present` exist: an
\* if on another key is its else branch, a for over another key is
\* nothing, an output of another key is its default (or nothing).
RECURSIVE Specialise(_, _)
Specialise(nodes, present) ==
    IF nodes = <<>> THEN <<>>
    ELSE
      LET nd == nodes[1]
          first ==
            CASE nd.k = "if" /\ nd.cond.key \notin present ->
                    Specialise(nd.b, present)
              [] nd.k = "if" /\ nd.cond.key \in present ->
                    <<[nd EXCEPT !.a = Specialise(nd.a, present),
                                 !.b = Specialise(nd.b, present)]>>
              [] nd.k = "for" /\ nd.key \notin present -> <<>>
              [] nd.k = "for" /\ nd.key \in present ->
                    <<[nd EXCEPT !.a = Specialise(nd.a, present \cup {nd.var})]>>
              [] nd.k = "out" /\ nd.key \notin present ->
                    <<Lit(IF nd.hasd THEN nd.dflt ELSE <<>>)>>
              [] OTHER -> <<nd>>
      IN  first \o Specialise(Tail(nodes), present)

\* the call renders a template of the source
CatalogCall == pc = "render" /\ template.name \in DOMAIN CATALOG

\* C15: a section of a catalog template renders without error under the
\* empty context, and under the context of the call with any one key
\* taken away whenever it does under the whole context; and its text under
\* a context is the text of its content with the else branch in place of
\* every if on a missing key, nothing in place of every loop over a
\* missing key, and the default (or nothing) in place of every output of a
\* missing key.
C15_MissingKeysAreFalsy ==
    (CatalogCall /\ idx <= Len(sorted_sections)) =>
      LET content == SectionOf(idx).content
          whole   == RenderSection(content, context)
          lacking == {EmptyContext, context}
                        \cup {Remove(context, {k}) : k \in DOMAIN context}
      IN  /\ RenderSection(content, EmptyContext).ok
          /\ \A c \in lacking :
                LET r == RenderSection(content, c)
                IN  /\ whole.ok => r.ok
                    /\ r.ok => r.out = RenderSection(Specialise(content, DOMAIN c), c).out

\* a catalog template of several sections was rendered under the empty
\* context: every section rendered and is in the output
C15_Witness ==
    /\ CatalogCall
    /\ idx > Len(sorted_sections)
    /\ context0 = EmptyContext
    /\ Len(sorted_sections) >= 4
    /\ dropped = {}
    /\ Len(kept) = Len(sorted_sections)

\* the first place from i on where sub occurs in text, 0 when there is none
FindFrom(text, sub, i) ==
    LET at == {n \in i..(Len(text) - Len(sub) + 1) : SubSeq(text, n, n + Len(sub) - 1) = sub}
    IN  IF at = {} THEN 0 ELSE CHOOSE n \in at : \A m \in at : n <= m

\* the pieces occur in text one after the other, from place i on
RECURSIVE InOrderFrom(_, _, _)
InOrderFrom(text, pieces, i) ==
    IF pieces = <<>> THEN TRUE
    ELSE LET n == FindFrom(text, pieces[1], i)
         IN  n # 0 /\ InOrderFrom(text, Tail(pieces), n + Len(pieces[1]))

\* "# demo" on a line
DemoHeading == <<"#", " ", "d","e","m","o", NL>>

\* a fenced block holding "pip install demo"
DemoInstallBlock ==
    <<NL, "^^^bash", NL, "p","i","p"," ","i","n","s","t","a","l","l"," ","d","e","m","o",
      NL, "^^^", NL>>

\* a fenced block holding "demo --help"
DemoUsageBlock ==
    <<NL, "^^^", "b","a","s","h", NL, "d","e","m","o"," ","-","-","h","e","l","p",
      NL, "^^^", NL>>

\* the license sentence naming MIT
DemoLicenseSentence ==
    <<NL, "This project is licensed under the", " ", "M","I","T", " ",
      "License - see the [LICENSE](LICENSE) file for details.", NL>>

\* C16: "minimal" rendered under the example context gives a text that
\* starts with the line "# demo" and then holds, one after the other, a
\* fenced block with "pip install demo", a fenced block with
\* "demo --help" and the license sentence naming MIT; all four sections
\* are in the output.
C16_MinimalExample ==
    (Returned /\ template_name = "minimal" /\ context0 = Ctx_demo) =>
      /\ SubSeq(result.v, 1, Len(DemoHeading)) = DemoHeading
      /\ InOrderFrom(result.v,
                     <<DemoHeading, DemoInstallBlock, DemoUsageBlock, DemoLicenseSentence>>, 1)
      /\ [k \in 1..Len(kept) |-> SectionOf(kept[k]).name]
            = <<"header", "installation", "usage", "license">>

\* the call on "minimal" with the example context has returned
C16_Witness ==
    /\ Returned
    /\ template_name = "minimal"
    /\ context0 = Ctx_demo
    /\ Len(sorted_sections) = 4
    /\ result.v # <<>>

\* the heading of the License section and the sentence of its else branch
NoLicenseText ==
    <<"## License", NL, NL, NL,
      "This project is provided as-is without any license.", NL>>

\* the context has no license: the key is missing or holds 'None'
Unlicensed(ctx) ==
    \/ "license" \notin DOMAIN ctx
    \/ ctx["license"] = VStr(<<"N","o","n","e">>)

\* C17: a call on "minimal" (and on any template of the source, all of
\* which have the License section) under a context without the license
\* key, or with license 'None', has the License section in its output,
\* with its heading and the sentence that the project is provided without
\* any license, and without the sentence naming a license.
C17_NoLicenseSection ==
    (Returned /\ template.name \in DOMAIN CATALOG /\ Unlicensed(context0)) =>
      \E k \in 1..Len(kept) :
        /\ SectionOf(kept[k]).name = "license"
        /\ SubSeq(rendered_parts[k], 1, Len(NoLicenseText)) = NoLicenseText
        /\ FindFrom(rendered_parts[k], <<"This project is licensed under the">>, 1) = 0
        /\ FindFrom(result.v, NoLicenseText, 1) # 0

\* "minimal" was rendered under a context that has keys but no license
C17_Witness ==
    /\ Returned
    /\ template_name = "minimal"
    /\ "license" \notin DOMAIN context0
    /\ context0 # EmptyContext
    /\ FindFrom(result.v, NoLicenseText, 1) # 0

\* C18: a call on a template without sections returns the empty string
\* and leaves the context as it was: no table_of_contents is added.
C18_EmptyTemplate ==
    (Returned /\ template.sections = <<>>) =>
      /\ result = [some |-> TRUE, v |-> <<>>]
      /\ context = context0
      /\ "table_of_contents" \in DOMAIN context
            <=> "table_of_contents" \in DOMAIN context0

\* the empty template was rendered under a context with keys and no table
C18_Witness ==
    /\ Returned
    /\ template_name \in DOMAIN TEMPLATES
    /\ template.sections = <<>>
    /\ result = [some |-> TRUE, v |-> <<>>]
    /\ context # EmptyContext
    /\ "table_of_contents" \notin DOMAIN context

\* C19: the default template is in the catalog in every state, so the
\* lookup of line 450 finds it.
C19_DefaultExists ==
    /\ DefaultName = "standard"
    /\ "standard" \in DOMAIN TEMPLATES
    /\ get_template(TEMPLATES, DefaultName).some
    /\ (pc # "idle" /\ template_name \notin DOMAIN TEMPLATES)
          => template = TEMPLATES["standard"]

\* a call with a name outside the catalog took the fallback and returned
C19_Witness ==
    /\ Returned
    /\ template_name \notin DOMAIN TEMPLATES
    /\ template = TEMPLATES["standard"]
    /\ Len(kept) >= 1

\* the names of the replacement fields of a format string
Fields(parts) == {parts[j].s : j \in {i \in 1..Len(parts) : ~parts[i].lit}}

\* the format string with the value of its field in place of every field
RECURSIVE Substituted(_, _, _)
Substituted(parts, kwargs, n) ==
    IF n = 0 THEN <<>>
    ELSE Substituted(parts, kwargs, n - 1)
         \o (IF parts[n].lit THEN <<parts[n].s>> ELSE kwargs[parts[n].s])

\* C20: generate_badge never raises; it gives None for a badge type that is
\* not in BADGE_TEMPLATES and when a field of the template's url or link
\* is not among the keyword arguments; otherwise it gives a Badge with the
\* template's name, the url and the link with every field replaced by its
\* argument, and link None when the template has no link.
C20_GenerateBadge ==
    badge.some =>
      LET t  == badge.badge_type
          kw == badge.kwargs
          r  == badge.ret
      IN  /\ ~r.raised
          /\ t \notin DOMAIN BADGE_TEMPLATES => r.none
          /\ t \in DOMAIN BADGE_TEMPLATES =>
                LET tmpl == BADGE_TEMPLATES[t]
                IN  IF ~((Fields(tmpl.url) \cup Fields(tmpl.link)) \subseteq DOMAIN kw)
                    THEN r.none
                    ELSE /\ ~r.none
                         /\ r.name = tmpl.name
                         /\ r.url = Substituted(tmpl.url, kw, Len(tmpl.url))
                         /\ tmpl.haslink =>
                               r.link = SomeStr(Substituted(tmpl.link, kw, Len(tmpl.link)))
                         /\ ~tmpl.haslink => r.link = NoneStr

\* a badge whose url and link both have fields, made from keyword
\* arguments of which one is not used
C20_Witness ==
    /\ badge.some
    /\ ~badge.ret.none
    /\ ~badge.ret.link.none
    /\ badge.badge_type \in DOMAIN BADGE_TEMPLATES
    /\ Fields(BADGE_TEMPLATES[badge.badge_type].url) # {}
    /\ Fields(BADGE_TEMPLATES[badge.badge_type].link) # {}
    /\ \E k \in DOMAIN badge.kwargs :
          k \notin Fields(BADGE_TEMPLATES[badge.badge_type].url)
                      \cup Fields(BADGE_TEMPLATES[badge.badge_type].link)

\* the license an identifier stands for: the key it is an alias of after
\* lowercasing, or itself
AliasedKey(id) ==
    IF \E j \in DOMAIN LICENSE_ALIASES : LICENSE_ALIASES[j][1] = StrLower(id)
    THEN LICENSE_ALIASES[CHOOSE j \in DOMAIN LICENSE_ALIASES :
                            LICENSE_ALIASES[j][1] = StrLower(id)][2]
    ELSE id

\* the identifier resolves to a known license
Resolves(id) == \E j \in DOMAIN LICENSES : LICENSES[j].key = AliasedKey(id)

\* the record of the license the identifier resolves to
RecordOf(id) == LICENSES[CHOOSE j \in DOMAIN LICENSES : LICENSES[j].key = AliasedKey(id)]

\* the license text a call of save_license_file is to write
LicenseTextOf(call) ==
    LET tmpl == RecordOf(call.license_id).template
        y    == IF call.year.none THEN call.now ELSE call.year.n
    IN  Substituted(tmpl, [year |-> IntStr(y), author |-> call.author], Len(tmpl))

\* C21: save_license_file returns True only when the identifier resolved
\* to a known license and the formatted text of generate_license_text was
\* written to output_path; for an identifier that resolves to no license
\* generate_license_text gives None and save_license_file returns False
\* with every file as it was; a failure of open or of the write gives
\* False, and no call raises.
C21_SaveLicenseFile ==
    lic.some =>
      /\ ~lic.raised
      /\ lic.ret =>
            /\ Resolves(lic.license_id)
            /\ ~lic.text.none
            /\ lic.text.s = LicenseTextOf(lic)
            /\ files[lic.output_path] = File(lic.text.s)
      /\ ~Resolves(lic.license_id) =>
            /\ lic.text.none
            /\ ~lic.ret
            /\ files = lic.files0
      /\ lic.fault # "none" => ~lic.ret

\* a call that wrote a license with both fields, named by an alias and
\* dated with the current year, over an older file
C21_Witness ==
    /\ lic.some
    /\ lic.ret
    /\ lic.year.none
    /\ lic.files0[lic.output_path] = File(OldText)
    /\ Fields(RecordOf(lic.license_id).template) = {"year", "author"}
    /\ lic.license_id # AliasedKey(lic.license_id)

\* a call with an unknown identifier for a path where a file is
C21_UnknownSeen ==
    /\ lic.some
    /\ ~Resolves(lic.license_id)
    /\ lic.license_id # <<>>
    /\ lic.files0[lic.output_path] = File(OldText)

\* a call whose write failed after open had truncated the file
C21_FailureSeen ==
    /\ lic.some
    /\ lic.fault = "write"
    /\ lic.files0[lic.output_path] = File(OldText)
    /\ files[lic.output_path] # File(OldText)

\* the values detect_project_type is documented to give
ProjectTypes == {"python_library", "cli_tool", "web_app", "api", "standard"}

\* C22: whatever marker files the directory holds and whichever of them
\* cannot be read or parsed, detect_project_type raises nothing and gives
\* one of python_library, cli_tool, web_app, api, standard; each of these
\* is a key of TEMPLATES, so get_template finds it.
C22_DetectProjectType ==
    /\ ProjectTypes \subseteq DOMAIN TEMPLATES
    /\ project.some =>
          /\ ~project.ret.raised
          /\ project.ret.ret \in ProjectTypes
          /\ get_template(TEMPLATES, project.ret.ret).some
          /\ ResolveTemplate(TEMPLATES, project.ret.ret)
                = TEMPLATES[project.ret.ret]

\* a directory whose package.json does not load and whose Cargo.toml
\* cannot be read, with a Dockerfile
C22_Witness ==
    /\ project.some
    /\ project.dir.package_json.st = "unreadable"
    /\ project.dir.Cargo_toml.st = "unreadable"
    /\ project.dir.Dockerfile
    /\ project.ret = Type("api")

\* the catalog is the one written in the source
SourceCatalog == TEMPLATES = InitialCatalog(<<>>)

\* the content starts with literal text that is not blank
HasHeading(content) ==
    /\ content # <<>>
    /\ content[1].k = "lit"
    /\ ~Blank(content[1].text)

\* C23: in a call on a template of the catalog of the source, under any
\* context, every section starts with literal text that is not blank, no
\* section renders to blank text, and when no section fails the output
\* has as many parts as the template has sections.
C23_NoSectionGated ==
    (Returned /\ SourceCatalog) =>
      /\ \A j \in Positions :
            /\ HasHeading(SectionOf(j).content)
            /\ LET r == RenderAt(j) IN r.ok => ~Blank(r.out)
      /\ dropped = {} => Len(rendered_parts) = Len(template.sections)

\* a call under a context with neither demo_gif nor demo_url in which no
\* section failed: the optional section demo is in the output
C23_Witness ==
    /\ Returned
    /\ SourceCatalog
    /\ dropped = {}
    /\ "demo_gif" \notin DOMAIN context
    /\ "demo_url" \notin DOMAIN context
    /\ \E j \in Positions :
          SectionOf(j).name = "demo" /\ SectionOf(j).optional /\ Emitted(j)
    /\ Len(rendered_parts) = Len(template.sections)

\* the table of contents in the context has the entry of the section at
\* position j
HasEntry(j) ==
    \E a \in 1..Len(TocLines) : TocLines[a] = EntryFor(SectionOf(j).title)

\* C24: with a "toc" section in the template, the table of contents is
\* in the context before the first section is rendered, is the one the
\* section list gives under any context, and has an entry for every
\* section that is neither "toc" nor "header" and has a title, also for
\* a section that raises or renders to blank text and is not in the
\* document.
C24_TocFromSectionList ==
    (((pc = "render" /\ idx = 1) \/ Returned) /\ HasTocSection) =>
      /\ "table_of_contents" \in DOMAIN context
      /\ context["table_of_contents"]
            = TocContext(sorted_sections, EmptyContext)["table_of_contents"]
      /\ LET lines   == TocLines
             entries == {lines[a] : a \in 1..Len(lines)}
         IN  \A j \in Positions :
                Listed(j) => EntryFor(SectionOf(j).title) \in entries

\* the table has the entry of a section that raised and the entry of a
\* section that rendered to blank text; neither is in the document
C24_Witness ==
    /\ Returned
    /\ HasTocSection
    /\ \E j \in dropped : Listed(j) /\ HasEntry(j) /\ ~Emitted(j)
    /\ \E j \in Positions :
          /\ Listed(j) /\ HasEntry(j) /\ ~Emitted(j)
          /\ RenderAt(j).ok /\ Blank(RenderAt(j).out)

\* C25: when the caller's context has a table_of_contents, a call on a
\* template with a "toc" section replaces it by the table of the
\* template; a call on a template without one leaves it as it was, and
\* on the catalog of the source returns the string it returns without
\* the key.
C25_CallerToc ==
    (Returned /\ "table_of_contents" \in DOMAIN context0) =>
      /\ HasTocSection => context["table_of_contents"] = VStr(ExpectedToc)
      /\ ~HasTocSection =>
            /\ context["table_of_contents"] = context0["table_of_contents"]
            /\ SourceCatalog =>
                  result.v = render_template(TEMPLATES, template_name,
                                 Remove(context0, {"table_of_contents"})).v

\* the caller's table went through a call of "minimal" unchanged and was
\* replaced by the next call, of a template with a "toc" section
C25_Witness ==
    /\ Returned
    /\ SourceCatalog
    /\ prev.some
    /\ prev.name = "minimal"
    /\ prev.v # <<>>
    /\ HasTocSection
    /\ "table_of_contents" \in DOMAIN context0
    /\ context0["table_of_contents"] = Ctx_config["table_of_contents"]
    /\ context["table_of_contents"] # context0["table_of_contents"]

\* the context object as the caller made it, before the first call on it
OriginalContext == IF prev.some THEN prev.context0 ELSE context0

\* C26: in a sequence of calls on one context object over the catalog of
\* the source, each call returns the string the same call returns on
\* the context as it was before the first call.
C26_SharedContext ==
    (Returned /\ SourceCatalog) =>
      result.v = render_template(TEMPLATES, template_name, OriginalContext).v

\* a call of a template without a "toc" section on the context in which
\* the call before, of a template with one, left its table
C26_Witness ==
    /\ Returned
    /\ SourceCatalog
    /\ prev.some
    /\ ~HasTocSection
    /\ rendered_parts # <<>>
    /\ "table_of_contents" \notin DOMAIN OriginalContext
    /\ "table_of_contents" \in DOMAIN context0
    /\ context0["table_of_contents"].s # <<>>

\* the README was written by this run of the command
ReadmeWritten == \E i \in 1..Len(run.log) : run.log[i] = "readme"

\* C27: the README that `generate` writes is the text it rendered for the
\* preview: the second rendering, on the context object the first one
\* left, gives the same string.
C27_WrittenIsPreviewed ==
    ReadmeWritten =>
      /\ run.readme = File(run.readme_content)
      /\ run.readme_content = RenderReadme(run.template, run.context0).v
      /\ run.context = RenderReadme(run.template, run.context0).context

\* a previewed README with a table of contents was saved over an older
\* one; the context came with a table_of_contents of its own
C27_Witness ==
    /\ ReadmeWritten
    /\ run.preview
    /\ run.readme0 = File(OldReadme)
    /\ "table_of_contents" \in DOMAIN run.context0
    /\ run.context["table_of_contents"] # run.context0["table_of_contents"]
    /\ Contains(run.readme_content, run.context["table_of_contents"].s)

\* C28: when the user answers no to "Save this README?" the command ends
\* with the README, the configuration file and LICENSE as they were; in
\* every run the configuration is saved and LICENSE is generated only
\* after the README was written.
C28_SaveOrder ==
    /\ run.cancelled =>
          /\ run.pc = "end"
          /\ run.preview
          /\ run.log = <<>>
          /\ run.readme = run.readme0
          /\ run.config = run.config0
          /\ files = run.files0
    /\ \A i \in 1..Len(run.log) :
          run.log[i] \in {"config", "license"} =>
             \E j \in 1..(i - 1) : run.log[j] = "readme"
    /\ (run.config # run.config0 \/ files # run.files0) => ReadmeWritten

\* a run with a license in its context that the user declined to save
C28_Witness ==
    /\ run.cancelled
    /\ run.pc = "end"
    /\ run.readme_content # <<>>
    /\ Truthy(CtxGet(run.context, "license", Undef))
    /\ CtxGet(run.context, "license", Undef) # VStr(<<"N", "o", "n", "e">>)

\* a run that wrote the README, the configuration and LICENSE
C28_AllWritten ==
    /\ run.log = <<"readme", "config", "license">>
    /\ run.config # run.config0
    /\ files # run.files0

\* the keys of LICENSES
LicenseKeys == {LICENSES[j].key : j \in DOMAIN LICENSES}

\* the identifier is a key of LICENSE_ALIASES once in lower case
IsAlias(id) == \E j \in DOMAIN LICENSE_ALIASES : LICENSE_ALIASES[j][1] = StrLower(id)

\* C29: every value of LICENSE_ALIASES is a key of LICENSES; for an
\* identifier that is a key of LICENSE_ALIASES in any letter-casing,
\* get_license_info gives the record of the aliased license and
\* get_license_badge_name its spdx_id; for an identifier that is neither
\* such an alias nor a key of LICENSES as written, get_license_info gives
\* None and get_license_badge_name the identifier itself.
C29_Aliases ==
    /\ \A j \in DOMAIN LICENSE_ALIASES : LICENSE_ALIASES[j][2] \in LicenseKeys
    /\ license_info.some =>
          LET id == license_info.license_id
          IN  /\ IsAlias(id) =>
                    /\ ~license_info.ret.none
                    /\ license_info.ret.info = RecordOf(id)
                    /\ license_info.ret.info.key = AliasedKey(id)
              /\ (~IsAlias(id) /\ id \notin LicenseKeys) => license_info.ret.none
    /\ badge_name.some =>
          LET id == badge_name.license_id
          IN  /\ IsAlias(id) => badge_name.ret = RecordOf(id).spdx_id
              /\ (~IsAlias(id) /\ id \notin LicenseKeys) => badge_name.ret = id

\* get_license_info found a license for an alias that is written
\* neither in lower case nor as the key of the license
C29_Witness ==
    /\ license_info.some
    /\ IsAlias(license_info.license_id)
    /\ license_info.license_id # StrLower(license_info.license_id)
    /\ license_info.license_id \notin LicenseKeys
    /\ ~license_info.ret.none
    /\ license_info.ret.info.key # StrUpper(license_info.license_id)

\* get_license_badge_name gave the spdx_id for an alias in capitals
C29_BadgeNameSeen ==
    /\ badge_name.some
    /\ IsAlias(badge_name.license_id)
    /\ badge_name.license_id # StrLower(badge_name.license_id)
    /\ badge_name.ret # badge_name.license_id

\* an identifier that is the lower case of a key of LICENSES, but no
\* alias, was not found
C29_UnknownSeen ==
    /\ license_info.some
    /\ ~IsAlias(license_info.license_id)
    /\ license_info.license_id \notin LicenseKeys
    /\ \E k \in LicenseKeys : StrLower(k) = license_info.license_id
    /\ license_info.ret.none

\* every field of the url and the link of the badge type has a keyword
\* argument
Covered(badge_type, kw) ==
    (Fields(BADGE_TEMPLATES[badge_type].url)
        \cup Fields(BADGE_TEMPLATES[badge_type].link)) \subseteq DOMAIN kw

\* the badges of the badge types from position i on that have all their
\* parameters, in the order of the types
RECURSIVE BadgesOf(_, _, _)
BadgesOf(types, kw, i) ==
    IF i > Len(types) THEN <<>>
    ELSE (IF types[i] \in DOMAIN BADGE_TEMPLATES /\ Covered(types[i], kw)
          THEN <<generate_badge(types[i], kw)>> ELSE <<>>)
         \o BadgesOf(types, kw, i + 1)

\* C30: generate_badges_from_preset takes the badge types of the preset,
\* those of "minimal" for a name that is not in BADGE_PRESETS, and gives,
\* in the order of the types, the badge of each type whose parameters are
\* all among the keyword arguments; the other types are left out, those
\* after them are not.
C30_BadgesFromPreset ==
    badges.some =>
      LET types == IF badges.preset \in DOMAIN BADGE_PRESETS
                   THEN BADGE_PRESETS[badges.preset]
                   ELSE <<"license">>
          kw    == badges.kwargs
      IN  /\ badges.ret = BadgesOf(types, kw, 1)
          /\ \A k \in 1..Len(badges.ret) : ~badges.ret[k].none
          /\ Len(badges.ret) = Cardinality({i \in 1..Len(types) : Covered(types[i], kw)})

\* github_actions has no `workflow` and is left out; the types before
\* and after it have their badges
C30_Witness ==
    /\ badges.some
    /\ badges.preset = "python_library"
    /\ "workflow" \notin DOMAIN badges.kwargs
    /\ Len(badges.ret) = Len(BADGE_PRESETS["python_library"]) - 1
    /\ badges.ret[Len(badges.ret)].name = BADGE_TEMPLATES["codecov"].name

\* a name that is not in BADGE_PRESETS gave the badge of "minimal"
C30_UnknownSeen ==
    /\ badges.some
    /\ badges.preset \notin DOMAIN BADGE_PRESETS
    /\ Len(badges.ret) = 1
    /\ badges.ret[1].name = BADGE_TEMPLATES["license"].name

====
